---- MODULE Spec2Model ----
(***************************************************************************)
(* A model of certstream-monitor: the domain matcher (IsDomainMatch), the  *)
(* reconnect backoff (Monitor.calculateBackoff), the Monitor's ingestion   *)
(* pipeline (control loop, raw message queue, decode/filter workers, event *)
(* channel), the webhook client and the command-line program.              *)
(*                                                                         *)
(* The specifications share the module's variables:                        *)
(*   SpecMatch     IsDomainMatch applied to bounded argument pairs         *)
(*   SpecBackoff   calculateBackoff applied to bounded configurations      *)
(*   SpecFilter    processCertificate applied to bounded messages          *)
(*   SpecClassify  createCertEvent's NEW / RENEWAL classification          *)
(*   SpecCLI       the command-line program (FairSpecCLI: with fairness)   *)
(*   SpecSend      Client.Send applied to bounded HTTP outcomes            *)
(*   SpecNew       New() applied to bounded options                        *)
(*   SpecOrder     the order of events with one or more workers            *)
(*   SpecRace      Start() and Stop() called by concurrent goroutines      *)
(*   Spec          the Monitor after New(), driven by one caller: Start,   *)
(*                 Stop, the control loop, the workers and the consumer    *)
(*                 of Events() (FairSpec: with fairness)                   *)
(*   SpecProgram   Spec or SpecCLI                                         *)
(* Each specification holds the other parts' variables at their idle       *)
(* values.                                                                 *)
(***************************************************************************)
EXTENDS Integers, Sequences, FiniteSets, TLC

(***************************************************************************)
(* Bounds of the model.                                                    *)
(***************************************************************************)
\* longest domain string IsDomainMatch is applied to in SpecMatch
MaxLen == 3
\* most failed attempts the reconnect counter is taken to in SpecBackoff
MaxAttempts == 4
\* capacity of rawMessageChan (BufferSize*3 in New) and of eventsChan (BufferSize)
RawCap == 1
EventCap == 1
\* Config.WorkerCount
WorkerCount == 2
\* most raw messages the server sends, failures of the connection while the
\* context is live, and effective Start calls in Spec
MaxMsgs == 2
MaxFailures == 1
MaxStarts == 2
\* SpecFilter: the longest watch-list and the longest all_domains list
MaxWatch == 2
MaxDomains == 2
\* SpecClassify: the not-before times and clock readings tried, in half seconds
MaxTicks == 4
\* SpecCLI: min(cfg.BufferSize, 10000), the capacity of the CLI's event queue
\* and of the dispatcher's job queue, and the events the Monitor hands over
eventQueueSize == 1
MaxEvents == 2
\* SpecSend: the status codes tried reach this far below 200 and above 300
MaxStatusSpread == 3
\* SpecOrder: the queue's capacity and the messages that arrive
OrderCap == 2
MaxArrivals == 3
\* SpecRace: the goroutines that call Start() and Stop() on one Monitor, and
\* the calls they make in all
MaxCallers == 2
MaxCalls == 3

(***************************************************************************)
(* Strings.  A Go string is modelled as a sequence of ASCII codes.         *)
(***************************************************************************)
Dot == 46
UpperA == 65
UpperZ == 90
CaseOffset == 32
LowerA == 97
LowerB == 98

\* the characters domain strings are built from in SpecMatch: . A a b
Alphabet == {Dot, UpperA, LowerA, LowerB}

RECURSIVE StrsOfLen(_)
StrsOfLen(n) ==
    IF n = 0 THEN {<<>>}
    ELSE {Append(s, c) : s \in StrsOfLen(n - 1), c \in Alphabet}

Strs == UNION {StrsOfLen(n) : n \in 0..MaxLen}

\* unicode.ToLower on an ASCII code
ToLowerChar(c) == IF c >= UpperA /\ c <= UpperZ THEN c + CaseOffset ELSE c

\* strings.ToLower
ToLower(s) == [i \in 1..Len(s) |-> ToLowerChar(s[i])]

\* strings.HasSuffix(s, suffix)
HasSuffix(s, suffix) ==
    /\ Len(s) >= Len(suffix)
    /\ SubSeq(s, Len(s) - Len(suffix) + 1, Len(s)) = suffix

\* IsDomainMatch without the empty-argument check
IsDomainMatch_NoEmptyCheck(certDomain, watchDomain) ==
    LET c == ToLower(certDomain)
        w == ToLower(watchDomain)
    IN  \/ c = w
        \/ HasSuffix(c, <<Dot>> \o w)

\* IsDomainMatch with a plain character-suffix test
IsDomainMatch_PlainSuffix(certDomain, watchDomain) ==
    IF certDomain = <<>> \/ watchDomain = <<>> THEN FALSE
    ELSE LET c == ToLower(certDomain)
             w == ToLower(watchDomain)
         IN  \/ c = w
             \/ HasSuffix(c, w)

\* IsDomainMatch comparing the arguments as given
IsDomainMatch_CaseSensitive(certDomain, watchDomain) ==
    IF certDomain = <<>> \/ watchDomain = <<>> THEN FALSE
    ELSE \/ certDomain = watchDomain
         \/ HasSuffix(certDomain, <<Dot>> \o watchDomain)

IsDomainMatch(certDomain, watchDomain) ==
    IF certDomain = <<>> \/ watchDomain = <<>> THEN FALSE
    ELSE LET c == ToLower(certDomain)
             w == ToLower(watchDomain)
         IN  IF c = w THEN TRUE
             ELSE IF HasSuffix(c, <<Dot>> \o w) THEN TRUE
             ELSE FALSE

(***************************************************************************)
(* Backoff.  Durations are integers in milliseconds; the jitter drawn by   *)
(* rand.Float64 is an integer percentage.  float64 seconds are kept exact  *)
(* as milliseconds * percent (1e-5 s).                                     *)
(***************************************************************************)
MsPerSecond == 1000
PctScale == 100
\* jitter := 0.1 + 0.2*rand.Float64(), in percent
JitterMinPct == 10
JitterMaxPct == 30
JitterPcts == JitterMinPct..JitterMaxPct

\* Config.ReconnectTimeout and Config.MaxReconnectTimeout values tried (ms)
BaseTimeoutsMs == {0, 500, 1000, 3000}
MaxTimeoutsMs == {0, 2500, 10000, 300000}

RECURSIVE Pow2(_)
Pow2(n) == IF n = 0 THEN 1 ELSE 2 * Pow2(n - 1)

\* time.Duration(f): conversion of a float64 to int64 truncates toward zero
TruncDiv(a, b) == IF a >= 0 THEN a \div b ELSE -((-a) \div b)

\* calculateBackoff without the cap at the maximum timeout
calculateBackoff_NoCap(disable, baseMs, maxMs, attempts, jitterPct) ==
    IF disable THEN 0
    ELSE TruncDiv(baseMs * Pow2(attempts) * (PctScale + jitterPct),
                  PctScale * MsPerSecond) * MsPerSecond

\* calculateBackoff ignoring Config.DisableBackoff
calculateBackoff_IgnoreDisable(disable, baseMs, maxMs, attempts, jitterPct) ==
    LET calculated == baseMs * Pow2(attempts) * (PctScale + jitterPct)
        capped == IF calculated > maxMs * PctScale THEN maxMs * PctScale
                  ELSE calculated
    IN  TruncDiv(capped, PctScale * MsPerSecond) * MsPerSecond

\* Monitor.calculateBackoff: the delay in milliseconds
calculateBackoff(disable, baseMs, maxMs, attempts, jitterPct) ==
    IF disable THEN 0
    ELSE LET calculatedBackoff ==
                 baseMs * Pow2(attempts) * (PctScale + jitterPct)
             maxBackoff == maxMs * PctScale
             capped == IF calculatedBackoff > maxBackoff THEN maxBackoff
                       ELSE calculatedBackoff
         IN  TruncDiv(capped, PctScale * MsPerSecond) * MsPerSecond

(***************************************************************************)
(* Messages and events.  A raw message is what the two json.Unmarshal      *)
(* calls make of its bytes: whether the lightweight decode and the full    *)
(* decode succeed, its message_type and its leaf_cert.all_domains.         *)
(***************************************************************************)
DomA == <<LowerA>>
DomBdotA == <<LowerB, Dot, LowerA>>
DomBA == <<LowerB, LowerA>>

CertificateUpdate == "certificate_update"

MsgMalformed ==
    [liteOK |-> FALSE, fullOK |-> FALSE, messageType |-> "", allDomains |-> <<>>]
MsgHeartbeat ==
    [liteOK |-> TRUE, fullOK |-> TRUE, messageType |-> "heartbeat", allDomains |-> <<>>]
MsgCertHit ==
    [liteOK |-> TRUE, fullOK |-> TRUE, messageType |-> CertificateUpdate,
     allDomains |-> <<DomA, DomBdotA>>]
MsgCertMiss ==
    [liteOK |-> TRUE, fullOK |-> TRUE, messageType |-> CertificateUpdate,
     allDomains |-> <<DomBA>>]
\* decodes into certMessageLite but not into CertData (a field of the wrong type)
MsgCertBadFull ==
    [liteOK |-> TRUE, fullOK |-> FALSE, messageType |-> CertificateUpdate,
     allDomains |-> <<DomA>>]

RawMessages == {MsgMalformed, MsgHeartbeat, MsgCertHit, MsgCertMiss, MsgCertBadFull}

NoMsg == [liteOK |-> FALSE, fullOK |-> FALSE, messageType |-> "none", allDomains |-> <<>>]

\* Config.Domains values tried
WatchLists == {<<>>, <<DomA>>}

\* SpecFilter: watch-lists up to MaxWatch entries, repeated entries included,
\* and messages whose all_domains has up to MaxDomains entries
DomB == <<LowerB>>

SeqsUpTo(S, n) == UNION {[1..k -> S] : k \in 0..n}

FilterWatchLists == SeqsUpTo({DomA, DomB, DomBdotA}, MaxWatch)

FilterMessages ==
    {m \in [liteOK : BOOLEAN, fullOK : BOOLEAN,
            messageType : {CertificateUpdate, "heartbeat"},
            allDomains : SeqsUpTo({DomA, DomB, DomBdotA, DomBA}, MaxDomains)] :
        m.fullOK => m.liteOK}

\* findMatchedDomainsFromList without the break: one entry per matching leaf
RECURSIVE findMatchedDomainsFromList_NoBreak(_, _)
findMatchedDomainsFromList_NoBreak(watch, domains) ==
    IF watch = <<>> THEN <<>>
    ELSE LET hits == SelectSeq(domains, LAMBDA d : IsDomainMatch(d, Head(watch)))
         IN  [i \in 1..Len(hits) |-> Head(watch)]
                 \o findMatchedDomainsFromList_NoBreak(Tail(watch), domains)

\* Monitor.findMatchedDomainsFromList
findMatchedDomainsFromList(watch, domains) ==
    SelectSeq(watch,
              LAMBDA w : \E i \in 1..Len(domains) : IsDomainMatch(domains[i], w))

\* createCertEvent's CertType: times in milliseconds; NotBefore is a float64
\* of seconds that int64() cuts to whole seconds, time.Now() is not cut
HoursPerDay == 24
SecondsPerHour == 3600
DayMs == HoursPerDay * SecondsPerHour * MsPerSecond

\* the classification with "not after" in place of "before"
certType_NotStrict(notBeforeMs, nowMs) ==
    IF TruncDiv(notBeforeMs, MsPerSecond) * MsPerSecond + DayMs <= nowMs
    THEN "RENEWAL" ELSE "NEW"

\* time.Unix(int64(NotBefore), 0).Add(24 * time.Hour).Before(time.Now())
certType(notBeforeMs, nowMs) ==
    IF TruncDiv(notBeforeMs, MsPerSecond) * MsPerSecond + DayMs < nowMs
    THEN "RENEWAL" ELSE "NEW"

\* Monitor.createCertEvent (the classification is certType above)
createCertEvent(msg) == [allDomains |-> msg.allDomains, matched |-> <<>>]

\* processCertificate filtering by the watch-list even when it is empty
processCertificate_AlwaysFilter(watch, msg) ==
    IF ~msg.liteOK THEN <<>>
    ELSE IF msg.messageType # CertificateUpdate THEN <<>>
    ELSE LET matchedDomains == findMatchedDomainsFromList(watch, msg.allDomains)
         IN  IF Len(matchedDomains) = 0 THEN <<>>
             ELSE IF ~msg.fullOK THEN <<>>
             ELSE <<[createCertEvent(msg) EXCEPT !.matched = matchedDomains]>>

\* processCertificate without the check of message_type
processCertificate_NoTypeCheck(watch, msg) ==
    IF ~msg.liteOK THEN <<>>
    ELSE IF Len(watch) = 0
         THEN IF ~msg.fullOK THEN <<>> ELSE <<createCertEvent(msg)>>
    ELSE LET matchedDomains == findMatchedDomainsFromList(watch, msg.allDomains)
         IN  IF Len(matchedDomains) = 0 THEN <<>>
             ELSE IF ~msg.fullOK THEN <<>>
             ELSE <<[createCertEvent(msg) EXCEPT !.matched = matchedDomains]>>

\* processCertificate building the event without the full decode's result
processCertificate_NoDecodeCheck(watch, msg) ==
    IF ~msg.liteOK THEN <<>>
    ELSE IF msg.messageType # CertificateUpdate THEN <<>>
    ELSE IF Len(watch) = 0 THEN <<createCertEvent(msg)>>
    ELSE LET matchedDomains == findMatchedDomainsFromList(watch, msg.allDomains)
         IN  IF Len(matchedDomains) = 0 THEN <<>>
             ELSE <<[createCertEvent(msg) EXCEPT !.matched = matchedDomains]>>

\* Monitor.processCertificate: the events it hands to sendEvent
processCertificate(watch, msg) ==
    IF ~msg.liteOK THEN <<>>
    ELSE IF msg.messageType # CertificateUpdate THEN <<>>
    ELSE IF Len(watch) = 0
         THEN IF ~msg.fullOK THEN <<>> ELSE <<createCertEvent(msg)>>
    ELSE LET matchedDomains == findMatchedDomainsFromList(watch, msg.allDomains)
         IN  IF Len(matchedDomains) = 0 THEN <<>>
             ELSE IF ~msg.fullOK THEN <<>>
             ELSE <<[createCertEvent(msg) EXCEPT !.matched = matchedDomains]>>

\* processCertificate decoding into CertData before it filters
fullDecodes_Eager(watch, msg) ==
    IF ~msg.liteOK THEN 0
    ELSE IF msg.messageType # CertificateUpdate THEN 0
    ELSE 1

\* Monitor.processCertificate: the json.Unmarshal calls into CertData it makes
fullDecodes(watch, msg) ==
    IF ~msg.liteOK THEN 0
    ELSE IF msg.messageType # CertificateUpdate THEN 0
    ELSE IF Len(watch) = 0 THEN 1
    ELSE IF Len(findMatchedDomainsFromList(watch, msg.allDomains)) = 0 THEN 0
    ELSE 1

\* Monitor.sendEvent: the channel after the non-blocking send
sendEvent(chan, event) ==
    IF Len(chan) < EventCap THEN Append(chan, event) ELSE chan

RECURSIVE sendAll(_, _)
sendAll(chan, events) ==
    IF events = <<>> THEN chan
    ELSE sendAll(sendEvent(chan, Head(events)), Tail(events))

(***************************************************************************)
(* The webhook: the dispatcher's jobs, the client's payload and Send.      *)
(***************************************************************************)
NoEvent == [allDomains |-> <<>>, matched |-> <<>>]

NoJob == [event |-> NoEvent, domain |-> <<>>]

\* enqueue's inner loop without the break: a job per matching watched domain
webhookJobsFor_NoBreak(event, certDomain) ==
    LET hits == SelectSeq(event.matched, LAMBDA w : IsDomainMatch(certDomain, w))
    IN  [j \in 1..Len(hits) |-> [event |-> event, domain |-> certDomain]]

\* enqueue without the IsDomainMatch test: a job for every entry
webhookJobsFor_AllLeaves(event, certDomain) ==
    <<[event |-> event, domain |-> certDomain]>>

\* webhookDispatcher.enqueue: the jobs it offers for one entry of AllDomains
webhookJobsFor(event, certDomain) ==
    IF \E j \in 1..Len(event.matched) : IsDomainMatch(certDomain, event.matched[j])
    THEN <<[event |-> event, domain |-> certDomain]>>
    ELSE <<>>

\* Client.buildPayload: the fields that name domains
buildPayload(event, matchedDomain) ==
    [domain |-> matchedDomain,
     allDomains |-> event.allDomains,
     matchedWith |-> matchedDomain]

\* what httpClient.Do can come back with: no response, or a status code
StatusOK == 200
StatusMultipleChoices == 300

HTTPOutcomes ==
    {[transport |-> TRUE, status |-> 0]} \cup
    {[transport |-> FALSE, status |-> c] :
        c \in {StatusOK - 1, StatusOK, StatusOK + 4, StatusMultipleChoices - 1,
               StatusMultipleChoices, StatusMultipleChoices + 104}}

\* Send without the check for an empty URL
Send_NoURLCheck(url, outcome) ==
    [err |-> \/ outcome.transport
             \/ outcome.status < StatusOK
             \/ outcome.status >= StatusMultipleChoices,
     requests |-> 1]

\* Send taking every status but 200 for a failure
Send_Only200(url, outcome) ==
    IF url = "" THEN [err |-> FALSE, requests |-> 0]
    ELSE [err |-> outcome.transport \/ outcome.status # StatusOK,
          requests |-> 1]

\* Client.Send: whether it returns an error and the requests it makes
Send(url, outcome) ==
    IF url = "" THEN [err |-> FALSE, requests |-> 0]
    ELSE [err |-> \/ outcome.transport
                  \/ outcome.status < StatusOK
                  \/ outcome.status >= StatusMultipleChoices,
          requests |-> 1]

(***************************************************************************)
(* State.                                                                  *)
(***************************************************************************)
VARIABLES
    \* SpecMatch: the arguments of the last IsDomainMatch call and its result
    mCert, mWatch, mResult, mPc,
    \* SpecBackoff: the configuration, the attempt counter, the jitter drawn
    \* by the last calculateBackoff call and the delay it returned
    bDisable, bBase, bMax, bAttempts, bJitter, bDelay, bPc,
    \* Spec: the Monitor
    Domains,            \* config.Domains
    parentCtxDone,      \* config.Context is cancelled
    isRunning,          \* m.isRunning
    stopClosed,         \* m.stopChan is closed
    wgCount,            \* m.wg
    callerPc,           \* "idle", or "stopWait": inside Stop(), at m.wg.Wait()
    starts,             \* Start calls that launched tasks
    monPc,              \* the monitor() goroutine
    monCtxDone,         \* monitor()'s ctx is cancelled
    reconnectAttempts,  \* m.reconnectAttempts
    ping,               \* the pingLoop goroutine of the open connection
    rawMessageChan,     \* m.rawMessageChan
    droppedMessages,    \* m.droppedMessages
    rawReceived,        \* messages conn.Read has returned
    rawEnqueued,        \* messages sent to rawMessageChan
    wPc, wData,         \* the processWorker goroutines and the message each holds
    eventsChan,         \* m.eventsChan
    \* SpecFilter: the watch-list and the message of a processCertificate
    \* call, the events it handed to sendEvent and the full decodes it made
    fWatch, fMsg, fEvents, fFull, fPc,
    \* SpecClassify: the certificate's not_before, the clock reading of
    \* createCertEvent and the CertType it chose
    tNotBefore, tNow, tType, tPc,
    \* SpecCLI: the command-line program around a started Monitor
    webhookURL,         \* cfg.WebhookURL
    cliDomains,         \* cfg.Domains
    mainPc,             \* main: "loop", "outputWait", "closeWait", "done"
    eventQueue,         \* eventQueue
    droppedEvents,      \* droppedEvents
    eventsReceived,     \* events main took from monitor.Events()
    outPc,              \* the output goroutine: "recv", "enqueue", "done"
    outEvent,           \* the event it last took
    outIdx,             \* enqueue's position in AllDomains
    outOffered,         \* the domains of the jobs that enqueue call offered
    jobs,               \* d.jobs
    dispatcherDropped,  \* d.dropped
    dispatcherErrors,   \* d.errors
    dwPc, dwJob,        \* the dispatcher's workers and the job each holds
    jobsAccepted,       \* jobs sent to d.jobs
    requests,           \* HTTP requests httpClient.Do was given
    failures,           \* requests that failed or got a non-2xx response
    libSend,            \* result of Send on a client with no URL
    \* SpecSend: the client's URL, what httpClient.Do comes back with, and
    \* Send's result and requests
    sUrl, sOutcome, sErr, sRequests, sPc,
    \* SpecNew: the WithBufferSize and WithWorkerCount options given to New,
    \* and the BufferSize and WorkerCount of the Monitor it returns
    nBufferOpt, nWorkerOpt, nBufferSize, nWorkerCount, nPc,
    \* SpecOrder: the workers started, the messages read so far, the raw
    \* queue, the message each worker holds, and the events sent, in order,
    \* each with the worker that sent it
    oWorkers, oArrived, oQueue, oHold, oEvents,
    \* SpecRace: the Monitor's lifecycle fields under concurrent callers
    rCallers,       \* goroutines calling Start() and Stop()
    rCalls,         \* calls that took m.mu so far
    rPc, rI,        \* each caller's position, and i of Start's loop
    rLast,          \* what each caller's last call did
    rMu,            \* the caller that holds m.mu, 0 when it is free
    rIsRunning,     \* m.isRunning
    rStopChan,      \* m.stopChan: the channels made so far are numbered
    rClosed,        \* the stop channels that are closed
    rWg,            \* m.wg's counter
    rNewWorkers,    \* workers launched that have not reached their select
    rWorkers,       \* workers in their select, by the stop channel it reads
    rNewMonitors,   \* control loops whose stop-watcher has not started
    rMonitors       \* control loops, by the stop channel the watcher reads

matchVars == <<mCert, mWatch, mResult, mPc>>

backoffVars == <<bDisable, bBase, bMax, bAttempts, bJitter, bDelay, bPc>>

lifeVars == <<isRunning, stopClosed, wgCount, callerPc, starts, parentCtxDone>>

monVars == <<monPc, monCtxDone, reconnectAttempts, ping>>

queueVars == <<rawMessageChan, droppedMessages, rawReceived, rawEnqueued>>

workerVars == <<wPc, wData, eventsChan>>

pipeVars == <<Domains, lifeVars, monVars, queueVars, workerVars>>

filterVars == <<fWatch, fMsg, fEvents, fFull, fPc>>

classVars == <<tNotBefore, tNow, tType, tPc>>

cliMainVars == <<webhookURL, cliDomains, mainPc, eventQueue, droppedEvents, eventsReceived>>

outVars == <<outPc, outEvent, outIdx, outOffered>>

dispatchVars == <<jobs, dispatcherDropped, dispatcherErrors, dwPc, dwJob>>

httpVars == <<jobsAccepted, requests, failures, libSend>>

cliVars == <<cliMainVars, outVars, dispatchVars, httpVars>>

sendVars == <<sUrl, sOutcome, sErr, sRequests, sPc>>

newVars == <<nBufferOpt, nWorkerOpt, nBufferSize, nWorkerCount, nPc>>

orderVars == <<oWorkers, oArrived, oQueue, oHold, oEvents>>

raceCallVars == <<rCallers, rCalls, rPc, rI, rLast>>

raceTaskVars == <<rNewWorkers, rWorkers, rNewMonitors, rMonitors>>

raceVars == <<raceCallVars, rMu, rIsRunning, rStopChan, rClosed, rWg, raceTaskVars>>

tailVars == <<sendVars, newVars, orderVars, raceVars>>

\* the variables of the specifications below the Monitor's
extVars == <<filterVars, classVars, cliVars, tailVars>>

vars == <<matchVars, backoffVars, pipeVars, extVars>>

Workers == 1..WorkerCount

Callers == 1..MaxCallers

\* the stop channels: New makes number 0, each Stop that completes the next
StopChans == 0..MaxCalls

(***************************************************************************)
(* SpecMatch: IsDomainMatch on every pair of strings up to MaxLen, then    *)
(* called again after the letter case of one character is changed.         *)
(***************************************************************************)
MatchIdle ==
    /\ mCert = <<>>
    /\ mWatch = <<>>
    /\ mResult = FALSE
    /\ mPc = "off"

BackoffIdle ==
    /\ bDisable = FALSE
    /\ bBase = 0
    /\ bMax = 0
    /\ bAttempts = 0
    /\ bJitter = 0
    /\ bDelay = 0
    /\ bPc = "off"

\* the Monitor New() returns, with the watch-list given
Constructed(watch) ==
    /\ Domains = watch
    /\ parentCtxDone = FALSE
    /\ isRunning = FALSE
    /\ stopClosed = FALSE
    /\ wgCount = 0
    /\ callerPc = "idle"
    /\ starts = 0
    /\ monPc = "none"
    /\ monCtxDone = FALSE
    /\ reconnectAttempts = 0
    /\ ping = "none"
    /\ rawMessageChan = <<>>
    /\ droppedMessages = 0
    /\ rawReceived = 0
    /\ rawEnqueued = 0
    /\ wPc = [w \in Workers |-> "none"]
    /\ wData = [w \in Workers |-> NoMsg]
    /\ eventsChan = <<>>

PipeIdle == Constructed(<<>>)

FilterIdle ==
    /\ fWatch = <<>>
    /\ fMsg = NoMsg
    /\ fEvents = <<>>
    /\ fFull = 0
    /\ fPc = "off"

ClassIdle ==
    /\ tNotBefore = 0
    /\ tNow = 0
    /\ tType = ""
    /\ tPc = "off"

\* the command-line program has not been started
CliIdle ==
    /\ webhookURL = ""
    /\ cliDomains = <<>>
    /\ mainPc = "off"
    /\ eventQueue = <<>>
    /\ droppedEvents = 0
    /\ eventsReceived = 0
    /\ outPc = "off"
    /\ outEvent = NoEvent
    /\ outIdx = 0
    /\ outOffered = <<>>
    /\ jobs = <<>>
    /\ dispatcherDropped = 0
    /\ dispatcherErrors = 0
    /\ dwPc = [w \in Workers |-> "off"]
    /\ dwJob = [w \in Workers |-> NoJob]
    /\ jobsAccepted = 0
    /\ requests = 0
    /\ failures = 0
    /\ libSend = "off"

NoOutcome == [transport |-> FALSE, status |-> 0]

SendIdle ==
    /\ sUrl = ""
    /\ sOutcome = NoOutcome
    /\ sErr = FALSE
    /\ sRequests = 0
    /\ sPc = "off"

NoOption == [set |-> FALSE, value |-> 0]

NewIdle ==
    /\ nBufferOpt = NoOption
    /\ nWorkerOpt = NoOption
    /\ nBufferSize = 0
    /\ nWorkerCount = 0
    /\ nPc = "off"

OrderIdle ==
    /\ oWorkers = 0
    /\ oArrived = 0
    /\ oQueue = <<>>
    /\ oHold = [w \in Workers |-> 0]
    /\ oEvents = <<>>

RaceIdle ==
    /\ rCallers = 0
    /\ rCalls = 0
    /\ rPc = [c \in Callers |-> "idle"]
    /\ rI = [c \in Callers |-> 0]
    /\ rLast = [c \in Callers |-> "none"]
    /\ rMu = 0
    /\ rIsRunning = FALSE
    /\ rStopChan = 0
    /\ rClosed = {}
    /\ rWg = 0
    /\ rNewWorkers = 0
    /\ rWorkers = [ch \in StopChans |-> 0]
    /\ rNewMonitors = 0
    /\ rMonitors = [ch \in StopChans |-> 0]

TailIdle ==
    /\ SendIdle
    /\ NewIdle
    /\ OrderIdle
    /\ RaceIdle

ExtIdle ==
    /\ FilterIdle
    /\ ClassIdle
    /\ CliIdle
    /\ TailIdle

InitMatch ==
    /\ mCert \in Strs
    /\ mWatch \in Strs
    /\ mResult = FALSE
    /\ mPc = "args"
    /\ BackoffIdle
    /\ PipeIdle
    /\ ExtIdle

\* the first call
MatchCall ==
    /\ mPc = "args"
    /\ mResult' = IsDomainMatch(mCert, mWatch)
    /\ mPc' = "called"
    /\ UNCHANGED <<mCert, mWatch, backoffVars, pipeVars, extVars>>

IsUpper(c) == c >= UpperA /\ c <= UpperZ

IsLetter(c) == IsUpper(c) \/ IsUpper(c - CaseOffset)

SwapCase(c) ==
    IF IsUpper(c) THEN c + CaseOffset
    ELSE IF IsLetter(c) THEN c - CaseOffset
    ELSE c

\* the caller changes the case of one letter of the observed domain and calls again
MatchRecaseCert ==
    /\ mPc = "called"
    /\ \E i \in 1..Len(mCert) :
          /\ IsLetter(mCert[i])
          /\ SwapCase(mCert[i]) \in Alphabet
          /\ mCert' = [mCert EXCEPT ![i] = SwapCase(mCert[i])]
    /\ mResult' = IsDomainMatch(mCert', mWatch)
    /\ UNCHANGED <<mWatch, mPc, backoffVars, pipeVars, extVars>>

\* the caller changes the case of one letter of the watched domain and calls again
MatchRecaseWatch ==
    /\ mPc = "called"
    /\ \E i \in 1..Len(mWatch) :
          /\ IsLetter(mWatch[i])
          /\ SwapCase(mWatch[i]) \in Alphabet
          /\ mWatch' = [mWatch EXCEPT ![i] = SwapCase(mWatch[i])]
    /\ mResult' = IsDomainMatch(mCert, mWatch')
    /\ UNCHANGED <<mCert, mPc, backoffVars, pipeVars, extVars>>

NextMatch ==
    \/ MatchCall
    \/ MatchRecaseCert
    \/ MatchRecaseWatch

SpecMatch == InitMatch /\ [][NextMatch]_vars

(***************************************************************************)
(* Claims about IsDomainMatch (SpecMatch).                                 *)
(***************************************************************************)
\* a sequence of one or more non-empty labels joined by single dots
IsLabelSeq(s) ==
    /\ s # <<>>
    /\ s[1] # Dot
    /\ s[Len(s)] # Dot
    /\ \A i \in 1..(Len(s) - 1) : ~(s[i] = Dot /\ s[i + 1] = Dot)

\* a non-empty lowercase domain string
IsLowerDomain(s) == IsLabelSeq(s) /\ \A i \in 1..Len(s) : ~IsUpper(s[i])

\* C1: for non-empty lowercase domain strings, IsDomainMatch(observed, watched)
\* is true iff observed = watched or observed = X + "." + watched for some
\* non-empty label sequence X; a plain character suffix ("ba" for "a") or a
\* substring that is no suffix ("a.b" for "a") does not match.
C1_LabelBoundaryMatch ==
    (mPc = "called" /\ IsLowerDomain(mCert) /\ IsLowerDomain(mWatch)) =>
        (mResult <=>
            \/ mCert = mWatch
            \/ \E X \in Strs : IsLabelSeq(X) /\ mCert = X \o <<Dot>> \o mWatch)

\* C1's case: a subdomain of the watched domain has been matched
C1_Witness ==
    /\ mPc = "called"
    /\ mCert = <<LowerB, Dot, LowerA>>
    /\ mWatch = <<LowerA>>
    /\ mResult = TRUE

\* C2: IsDomainMatch returns false whenever the observed or the watched domain
\* is empty, whatever the other argument is.
C2_EmptyNeverMatches ==
    (mPc = "called" /\ (mCert = <<>> \/ mWatch = <<>>)) => mResult = FALSE

\* C2's case: both arguments empty (equal strings) and the call has returned
C2_Witness ==
    /\ mPc = "called"
    /\ mCert = <<>>
    /\ mWatch = <<>>
    /\ mResult = FALSE

\* C3: changing the letter case of a character of either argument never
\* changes the result of IsDomainMatch.
C3_CaseInsensitive ==
    [][(mPc = "called" /\ mPc' = "called") => mResult' = mResult]_vars

\* C3's case: a match between arguments that differ in letter case
C3_Witness ==
    /\ mPc = "called"
    /\ mCert = <<LowerB, Dot, UpperA>>
    /\ mWatch = <<LowerA>>
    /\ mResult = TRUE

(***************************************************************************)
(* SpecBackoff: calculateBackoff for every configuration tried, as the     *)
(* control loop's counter is incremented and reset.                        *)
(***************************************************************************)
InitBackoff ==
    /\ bDisable \in BOOLEAN
    /\ bBase \in BaseTimeoutsMs
    /\ bMax \in MaxTimeoutsMs
    /\ bAttempts = 0
    /\ bJitter = 0
    /\ bDelay = 0
    /\ bPc = "args"
    /\ MatchIdle
    /\ PipeIdle
    /\ ExtIdle

\* backoff := m.calculateBackoff()
BackoffCall ==
    /\ \E j \in JitterPcts :
          /\ bJitter' = j
          /\ bDelay' = calculateBackoff(bDisable, bBase, bMax, bAttempts, j)
    /\ bPc' = "called"
    /\ UNCHANGED <<bDisable, bBase, bMax, bAttempts, matchVars, pipeVars, extVars>>

\* m.reconnectAttempts++
BackoffFail ==
    /\ bAttempts < MaxAttempts
    /\ bAttempts' = bAttempts + 1
    /\ bPc' = "args"
    /\ UNCHANGED <<bDisable, bBase, bMax, bJitter, bDelay, matchVars, pipeVars, extVars>>

\* m.reconnectAttempts = 0
BackoffReset ==
    /\ bAttempts > 0
    /\ bAttempts' = 0
    /\ bPc' = "args"
    /\ UNCHANGED <<bDisable, bBase, bMax, bJitter, bDelay, matchVars, pipeVars, extVars>>

NextBackoff ==
    \/ BackoffCall
    \/ BackoffFail
    \/ BackoffReset

SpecBackoff == InitBackoff /\ [][NextBackoff]_vars

(***************************************************************************)
(* Claims about calculateBackoff (SpecBackoff).                            *)
(***************************************************************************)
\* C5: for every attempt count and every jitter value in the allowed range
\* the delay is never negative, never exceeds the configured maximum
\* reconnect timeout, and for a fixed jitter is non-decreasing in the attempt
\* count (no smaller attempt count gives a longer delay).
C5_BackoffBounded ==
    bPc = "called" =>
        /\ bDelay >= 0
        /\ bDelay <= bMax
        /\ \A n \in 0..bAttempts :
              calculateBackoff(bDisable, bBase, bMax, n, bJitter) <= bDelay

\* C5's case: after several failed attempts the delay has hit the clamp
C5_Witness ==
    /\ bPc = "called"
    /\ ~bDisable
    /\ bAttempts >= 2
    /\ bBase > 0
    /\ bDelay = bMax
    /\ calculateBackoff(bDisable, bBase, bMax, 0, bJitter) < bDelay

\* C6: with DisableBackoff set the delay is zero for every attempt count,
\* base timeout and maximum timeout.
C6_NoBackoffIsZero ==
    (bPc = "called" /\ bDisable) => bDelay = 0

\* C6's case: backoff disabled, a positive base and maximum, several attempts
C6_Witness ==
    /\ bPc = "called"
    /\ bDisable
    /\ bAttempts >= 2
    /\ bBase > 0
    /\ bMax > bBase
    /\ bDelay = 0

(***************************************************************************)
(* SpecFilter: processCertificate on every watch-list up to MaxWatch       *)
(* entries and every message whose all_domains has up to MaxDomains        *)
(* entries.                                                                *)
(***************************************************************************)
InitFilter ==
    /\ fWatch \in FilterWatchLists
    /\ fMsg \in FilterMessages
    /\ fEvents = <<>>
    /\ fFull = 0
    /\ fPc = "args"
    /\ MatchIdle
    /\ BackoffIdle
    /\ PipeIdle
    /\ ClassIdle
    /\ CliIdle
    /\ TailIdle

\* one run of processCertificate on the message
FilterProcess ==
    /\ fPc = "args"
    /\ fEvents' = processCertificate(fWatch, fMsg)
    /\ fFull' = fullDecodes(fWatch, fMsg)
    /\ fPc' = "done"
    /\ UNCHANGED <<fWatch, fMsg, matchVars, backoffVars, pipeVars, classVars, cliVars, tailVars>>

NextFilter == FilterProcess

SpecFilter == InitFilter /\ [][NextFilter]_vars

\* some leaf domain of the list matches some watched domain
AnyLeafMatches(watch, domains) ==
    \E i \in 1..Len(domains) : \E j \in 1..Len(watch) :
        IsDomainMatch(domains[i], watch[j])

\* C11: with a non-empty watch-list, a message none of whose leaf domains
\* matches a watched domain yields no Event and is dropped after the
\* lightweight decode alone; the full decode is made exactly for the
\* certificate updates that pass the pre-filter, or for every certificate
\* update when the watch-list is empty.
C11_PrefilterBeforeFullDecode ==
    fPc = "done" =>
        /\ (Len(fWatch) > 0 /\ ~AnyLeafMatches(fWatch, fMsg.allDomains)) =>
               fEvents = <<>> /\ fFull = 0
        /\ fFull \in {0, 1}
        /\ fFull = 1 <=>
               /\ fMsg.liteOK
               /\ fMsg.messageType = CertificateUpdate
               /\ Len(fWatch) = 0 \/ AnyLeafMatches(fWatch, fMsg.allDomains)

\* C11's case: a certificate update whose only leaf domain misses the
\* watch-list was processed: no event, no full decode
C11_Witness ==
    /\ fPc = "done"
    /\ fWatch = <<DomA>>
    /\ fMsg = MsgCertMiss
    /\ fEvents = <<>>
    /\ fFull = 0

\* the positions of the watch-list that some leaf domain matches
MatchedPositions(watch, domains) ==
    {j \in 1..Len(watch) : \E i \in 1..Len(domains) : IsDomainMatch(domains[i], watch[j])}

\* the k-th smallest member of a set of positions
KthPosition(S, k) == CHOOSE j \in S : Cardinality({i \in S : i <= j}) = k

\* C12: with a non-empty watch-list, every emitted Event has a non-empty
\* match set, which is the watched domains that at least one leaf domain
\* matches, one entry per watch-list entry, in watch-list order.
C12_MatchSetIsWatchedHits ==
    (fPc = "done" /\ Len(fWatch) > 0) =>
        \A n \in 1..Len(fEvents) :
            LET matched == fEvents[n].matched
                hits == MatchedPositions(fWatch, fMsg.allDomains)
            IN  /\ Len(matched) > 0
                /\ Len(matched) = Cardinality(hits)
                /\ \A k \in 1..Len(matched) : matched[k] = fWatch[KthPosition(hits, k)]

\* C12's case: two leaf domains, each matching both watched domains, the
\* watch-list in the other order: the match set follows the watch-list
C12_Witness ==
    /\ fPc = "done"
    /\ fWatch = <<DomBdotA, DomA>>
    /\ fMsg.allDomains = <<DomA, DomBdotA>>
    /\ Len(fEvents) = 1
    /\ fEvents[1].matched = <<DomBdotA, DomA>>

\* C29: a message whose message_type is not "certificate_update" yields no
\* Event and no full decode, whether the watch-list is empty or not.
C29_OtherTypesIgnored ==
    (fPc = "done" /\ fMsg.messageType # "certificate_update") =>
        fEvents = <<>> /\ fFull = 0

\* C29's case: a heartbeat that decodes and lists a watched domain was
\* processed under a watch-list that it would match
C29_Witness ==
    /\ fPc = "done"
    /\ fMsg = [liteOK |-> TRUE, fullOK |-> TRUE, messageType |-> "heartbeat",
               allDomains |-> <<DomA>>]
    /\ fWatch = <<DomA>>
    /\ fEvents = <<>>
    /\ fFull = 0

(***************************************************************************)
(* SpecClassify: createCertEvent's classification for not_before values on *)
(* and between whole seconds and clock readings around 24 hours later.     *)
(***************************************************************************)
HalfSecondMs == 500

NotBeforeTimes == {HalfSecondMs * k : k \in 0..MaxTicks}

ClockReadings ==
    {DayMs + HalfSecondMs * k + e : k \in 0..(MaxTicks + 2), e \in {-1, 0, 1}}

InitClassify ==
    /\ tNotBefore \in NotBeforeTimes
    /\ tNow \in ClockReadings
    /\ tType = ""
    /\ tPc = "args"
    /\ MatchIdle
    /\ BackoffIdle
    /\ PipeIdle
    /\ FilterIdle
    /\ CliIdle
    /\ TailIdle

\* createCertEvent classifies the certificate
Classify ==
    /\ tPc = "args"
    /\ tType' = certType(tNotBefore, tNow)
    /\ tPc' = "done"
    /\ UNCHANGED <<tNotBefore, tNow, matchVars, backoffVars, pipeVars, filterVars, cliVars, tailVars>>

NextClassify == Classify

SpecClassify == InitClassify /\ [][NextClassify]_vars

\* C13: an event is "RENEWAL" iff the certificate's not-before (a whole
\* number of seconds, as a certificate's is) lies strictly more than 24 hours
\* before the processing time, and "NEW" otherwise: exactly 24h0m0s before
\* gives "NEW", 24h0m1s before gives "RENEWAL".
C13_RenewalIffOlderThanDay ==
    (tPc = "done" /\ tNotBefore % MsPerSecond = 0) =>
        /\ tType \in {"NEW", "RENEWAL"}
        /\ tType = "RENEWAL" <=> tNow - tNotBefore > DayMs
        /\ tNow - tNotBefore = DayMs => tType = "NEW"
        /\ tNow - tNotBefore = DayMs + MsPerSecond => tType = "RENEWAL"

\* C13's case: a certificate whose not-before is exactly 24 hours before the
\* clock reading was classified "NEW"
C13_Witness ==
    /\ tPc = "done"
    /\ tNotBefore = MsPerSecond
    /\ tNow = tNotBefore + DayMs
    /\ tType = "NEW"

(***************************************************************************)
(* SpecCLI: the command-line program.  main forwards the Monitor's events  *)
(* to eventQueue; the output goroutine prints them and hands the matched   *)
(* ones to the webhook dispatcher, if one was created; the dispatcher's    *)
(* workers send one request per job; on the signal main stops the Monitor, *)
(* closes eventQueue, waits for the output goroutine and then closes the   *)
(* dispatcher.                                                             *)
(***************************************************************************)
HookURL == "https://hook"

CliWatchLists == {<<>>, <<DomA>>, <<DomA, DomBdotA>>}

\* a certificate with one leaf domain under the watched name and one not
MsgCertMixed ==
    [liteOK |-> TRUE, fullOK |-> TRUE, messageType |-> CertificateUpdate,
     allDomains |-> <<DomBA, DomBdotA>>]

\* the events a Monitor with the watch-list can put on Events()
CliEvents(watch) ==
    {processCertificate(watch, m)[1] :
        m \in {n \in {MsgCertHit, MsgCertMiss, MsgCertMixed} :
                  processCertificate(watch, n) # <<>>}}

\* cfg.HasWebhook(): main creates the client and the dispatcher
HasWebhook == webhookURL # ""

jobsClosed == HasWebhook /\ mainPc \in {"closeWait", "done"}

eventQueueClosed == mainPc \in {"outputWait", "closeWait", "done"}

InitCLI ==
    /\ webhookURL \in {"", HookURL}
    /\ cliDomains \in CliWatchLists
    /\ mainPc = "loop"
    /\ eventQueue = <<>>
    /\ droppedEvents = 0
    /\ eventsReceived = 0
    /\ outPc = "recv"
    /\ outEvent = NoEvent
    /\ outIdx = 0
    /\ outOffered = <<>>
    /\ jobs = <<>>
    /\ dispatcherDropped = 0
    /\ dispatcherErrors = 0
    /\ dwPc = [w \in Workers |-> IF HasWebhook THEN "recv" ELSE "none"]
    /\ dwJob = [w \in Workers |-> NoJob]
    /\ jobsAccepted = 0
    /\ requests = 0
    /\ failures = 0
    /\ libSend = "none"
    /\ MatchIdle
    /\ BackoffIdle
    /\ PipeIdle
    /\ FilterIdle
    /\ ClassIdle
    /\ TailIdle

cliOthers == <<matchVars, backoffVars, pipeVars, filterVars, classVars, tailVars>>

\* main's loop takes an event from monitor.Events() and forwards it to
\* eventQueue without blocking
MainReceive ==
    /\ mainPc = "loop"
    /\ eventsReceived < MaxEvents
    /\ \E event \in CliEvents(cliDomains) :
          IF Len(eventQueue) < eventQueueSize
          THEN /\ eventQueue' = Append(eventQueue, event)
               /\ UNCHANGED droppedEvents
          ELSE /\ droppedEvents' = droppedEvents + 1
               /\ UNCHANGED eventQueue
    /\ eventsReceived' = eventsReceived + 1
    /\ UNCHANGED <<webhookURL, cliDomains, mainPc, outVars, dispatchVars,
                   httpVars, cliOthers>>

\* the signal: monitor.Stop(), close(eventQueue), then outputWG.Wait()
MainSignal ==
    /\ mainPc = "loop"
    /\ mainPc' = "outputWait"
    /\ UNCHANGED <<webhookURL, cliDomains, eventQueue, droppedEvents,
                   eventsReceived, outVars, dispatchVars, httpVars, cliOthers>>

\* main calling closeAndWait without outputWG.Wait()
MainOutputDone_NoWait ==
    /\ mainPc = "outputWait"
    /\ mainPc' = IF HasWebhook THEN "closeWait" ELSE "done"
    /\ UNCHANGED <<webhookURL, cliDomains, eventQueue, droppedEvents,
                   eventsReceived, outVars, dispatchVars, httpVars, cliOthers>>

\* outputWG.Wait() returns; closeAndWait closes d.jobs, if there is a
\* dispatcher
MainOutputDone ==
    /\ mainPc = "outputWait"
    /\ outPc = "done"
    /\ mainPc' = IF HasWebhook THEN "closeWait" ELSE "done"
    /\ UNCHANGED <<webhookURL, cliDomains, eventQueue, droppedEvents,
                   eventsReceived, outVars, dispatchVars, httpVars, cliOthers>>

\* d.wg.Wait() returns: closeAndWait returns and main does
MainCloseDone ==
    /\ mainPc = "closeWait"
    /\ \A w \in Workers : dwPc[w] = "done"
    /\ mainPc' = "done"
    /\ UNCHANGED <<webhookURL, cliDomains, eventQueue, droppedEvents,
                   eventsReceived, outVars, dispatchVars, httpVars, cliOthers>>

\* the output goroutine takes an event, prints it, and calls enqueue when
\* the event has matched domains and there is a dispatcher
OutRecv ==
    /\ outPc = "recv"
    /\ eventQueue # <<>>
    /\ eventQueue' = Tail(eventQueue)
    /\ outEvent' = Head(eventQueue)
    /\ outOffered' = <<>>
    /\ IF Len(Head(eventQueue).matched) > 0 /\ HasWebhook
       THEN outPc' = "enqueue" /\ outIdx' = 1
       ELSE outPc' = "recv" /\ outIdx' = 0
    /\ UNCHANGED <<webhookURL, cliDomains, mainPc, droppedEvents,
                   eventsReceived, dispatchVars, httpVars, cliOthers>>

\* the output goroutine returning as soon as eventQueue is closed
OutExit_OnClose ==
    /\ outPc = "recv"
    /\ eventQueueClosed
    /\ outPc' = "done"
    /\ UNCHANGED <<cliMainVars, outEvent, outIdx, outOffered, dispatchVars,
                   httpVars, cliOthers>>

\* eventQueue is closed and empty: the range loop ends
OutExit ==
    /\ outPc = "recv"
    /\ eventQueue = <<>>
    /\ eventQueueClosed
    /\ outPc' = "done"
    /\ UNCHANGED <<cliMainVars, outEvent, outIdx, outOffered, dispatchVars,
                   httpVars, cliOthers>>

\* enqueue's outer loop body for AllDomains[outIdx]: each job is sent to
\* d.jobs if there is room and counted in d.dropped if not
EnqueueStep ==
    /\ outPc = "enqueue"
    /\ LET certDomain == outEvent.allDomains[outIdx]
           offered == webhookJobsFor(outEvent, certDomain)
           room == eventQueueSize - Len(jobs)
           queued == IF Len(offered) <= room THEN offered
                     ELSE SubSeq(offered, 1, room)
       IN  /\ jobs' = jobs \o queued
           /\ jobsAccepted' = jobsAccepted + Len(queued)
           /\ dispatcherDropped' = dispatcherDropped + (Len(offered) - Len(queued))
           /\ outOffered' = outOffered \o [j \in 1..Len(offered) |-> offered[j].domain]
    /\ IF outIdx < Len(outEvent.allDomains)
       THEN outIdx' = outIdx + 1 /\ UNCHANGED outPc
       ELSE outIdx' = 0 /\ outPc' = "recv"
    /\ UNCHANGED <<cliMainVars, outEvent, dispatcherErrors, dwPc, dwJob,
                   requests, failures, libSend, cliOthers>>

\* a dispatcher worker takes a job from d.jobs
DWRecv(w) ==
    /\ dwPc[w] = "recv"
    /\ jobs # <<>>
    /\ dwJob' = [dwJob EXCEPT ![w] = Head(jobs)]
    /\ jobs' = Tail(jobs)
    /\ dwPc' = [dwPc EXCEPT ![w] = "send"]
    /\ UNCHANGED <<cliMainVars, outVars, dispatcherDropped, dispatcherErrors,
                   httpVars, cliOthers>>

\* the worker leaving its range loop as soon as d.jobs is closed
DWExit_NoDrain(w) ==
    /\ dwPc[w] = "recv"
    /\ jobsClosed
    /\ dwPc' = [dwPc EXCEPT ![w] = "done"]
    /\ UNCHANGED <<cliMainVars, outVars, jobs, dispatcherDropped,
                   dispatcherErrors, dwJob, httpVars, cliOthers>>

\* d.jobs is closed and empty: the worker's range loop ends
DWExit(w) ==
    /\ dwPc[w] = "recv"
    /\ jobs = <<>>
    /\ jobsClosed
    /\ dwPc' = [dwPc EXCEPT ![w] = "done"]
    /\ UNCHANGED <<cliMainVars, outVars, jobs, dispatcherDropped,
                   dispatcherErrors, dwJob, httpVars, cliOthers>>

\* the request failed or was answered outside 200..299
Rejected(outcome) ==
    outcome.transport \/ outcome.status \notin StatusOK..(StatusMultipleChoices - 1)

\* the worker putting a job whose Send failed back on d.jobs
DWSend_Retry(w) ==
    /\ dwPc[w] = "send"
    /\ \E outcome \in HTTPOutcomes :
          LET sent == Send(webhookURL, outcome)
          IN  /\ requests' = requests + sent.requests
              /\ failures' = failures + (IF Rejected(outcome) THEN 1 ELSE 0)
              /\ dispatcherErrors' = dispatcherErrors + (IF sent.err THEN 1 ELSE 0)
              /\ jobs' = IF sent.err /\ Len(jobs) < eventQueueSize
                         THEN Append(jobs, dwJob[w]) ELSE jobs
    /\ dwPc' = [dwPc EXCEPT ![w] = "recv"]
    /\ dwJob' = [dwJob EXCEPT ![w] = NoJob]
    /\ UNCHANGED <<cliMainVars, outVars, dispatcherDropped, jobsAccepted,
                   libSend, cliOthers>>

\* the worker's client.Send for the job it holds: one request; an error is
\* counted in d.errors and the loop goes on
DWSend(w) ==
    /\ dwPc[w] = "send"
    /\ \E outcome \in HTTPOutcomes :
          LET sent == Send(webhookURL, outcome)
          IN  /\ requests' = requests + sent.requests
              /\ failures' = failures + (IF Rejected(outcome) THEN 1 ELSE 0)
              /\ dispatcherErrors' = dispatcherErrors + (IF sent.err THEN 1 ELSE 0)
    /\ dwPc' = [dwPc EXCEPT ![w] = "recv"]
    /\ dwJob' = [dwJob EXCEPT ![w] = NoJob]
    /\ UNCHANGED <<cliMainVars, outVars, jobs, dispatcherDropped, jobsAccepted,
                   libSend, cliOthers>>

\* Send on a client made with the empty URL, as TestClient_Send_NoURL calls it
LibSend ==
    /\ libSend = "none"
    /\ \E outcome \in HTTPOutcomes :
          LET sent == Send("", outcome)
          IN  /\ libSend' = IF sent.err THEN "error" ELSE "nil"
              /\ requests' = requests + sent.requests
    /\ UNCHANGED <<cliMainVars, outVars, dispatchVars, jobsAccepted, failures,
                   cliOthers>>

NextCLI ==
    \/ MainReceive
    \/ MainSignal
    \/ MainOutputDone
    \/ MainCloseDone
    \/ OutRecv
    \/ OutExit
    \/ EnqueueStep
    \/ \E w \in Workers : DWRecv(w)
    \/ \E w \in Workers : DWExit(w)
    \/ \E w \in Workers : DWSend(w)
    \/ LibSend

SpecCLI == InitCLI /\ [][NextCLI]_vars

\* FairSpecCLI: the output goroutine, the dispatcher's workers and main's
\* shutdown sequence are scheduled when they can take a step; the Monitor
\* need not send events and the signal need not come
FairSpecCLI ==
    /\ SpecCLI
    /\ WF_vars(OutRecv)
    /\ WF_vars(OutExit)
    /\ WF_vars(EnqueueStep)
    /\ WF_vars(MainOutputDone)
    /\ WF_vars(MainCloseDone)
    /\ \A w \in Workers : WF_vars(DWRecv(w)) /\ WF_vars(DWSend(w)) /\ WF_vars(DWExit(w))

\* the entries of the event's AllDomains that match a domain of its match set
MatchingLeaves(event) ==
    SelectSeq(event.allDomains,
              LAMBDA d : \E j \in 1..Len(event.matched) : IsDomainMatch(d, event.matched[j]))

\* C14: for an Event with a non-empty match set, enqueue offers one job per
\* entry of the certificate's domain list that matches some domain of the
\* match set: k matching entries give exactly k jobs, in list order, each
\* either queued or counted as dropped; domains ["a", "b.a"] with match set
\* ["a"] give two jobs, for "a" and for "b.a".
C14_OneJobPerMatchingLeaf ==
    /\ []((HasWebhook /\ outPc # "enqueue" /\ Len(outEvent.matched) > 0) =>
             outOffered = MatchingLeaves(outEvent))
    /\ []((HasWebhook /\ outPc # "enqueue"
           /\ outEvent = [allDomains |-> <<DomA, DomBdotA>>, matched |-> <<DomA>>]) =>
             outOffered = <<DomA, DomBdotA>>)
    /\ [][Len(outOffered') > Len(outOffered) =>
             (jobsAccepted' - jobsAccepted) + (dispatcherDropped' - dispatcherDropped)
                 = Len(outOffered') - Len(outOffered)]_vars

\* C14's case: enqueue has finished with the event for ["a", "b.a"] matched
\* by ["a"]; two jobs were offered, one of them dropped at the full queue
C14_Witness ==
    /\ outPc = "recv"
    /\ outEvent = [allDomains |-> <<DomA, DomBdotA>>, matched |-> <<DomA>>]
    /\ outOffered = <<DomA, DomBdotA>>
    /\ jobsAccepted = 1
    /\ dispatcherDropped = 1

\* the payload of the request worker w is making
payloadOf(w) == buildPayload(dwJob[w].event, dwJob[w].domain)

\* C15: every outbound notification names the matched leaf domain in its
\* domain field and, in matched_with, the domain of the watch-list that the
\* leaf domain matched (domain "b.a", matched_with "a").
C15_MatchedWithIsWatchedTerm ==
    \A w \in Workers :
        dwPc[w] = "send" =>
            /\ payloadOf(w).domain = dwJob[w].domain
            /\ \E j \in 1..Len(dwJob[w].event.matched) :
                   /\ payloadOf(w).matchedWith = dwJob[w].event.matched[j]
                   /\ IsDomainMatch(payloadOf(w).domain, payloadOf(w).matchedWith)

\* the deliveries in flight
InFlight == Cardinality({w \in Workers : dwPc[w] = "send"})

\* C16: delivery is fire-and-forget: every dequeued job gets exactly one
\* delivery attempt; a failed request or a non-2xx response adds one to the
\* dispatcher's error counter, the job is not put back, the worker goes on
\* to its next receive, and nothing outside the dispatcher changes.
C16_FireAndForget ==
    /\ [](dispatcherErrors = failures)
    /\ [](requests + InFlight = jobsAccepted - Len(jobs))
    /\ [][failures' = failures + 1 =>
             /\ dispatcherErrors' = dispatcherErrors + 1
             /\ requests' = requests + 1
             /\ jobs' = jobs
             /\ \A w \in Workers : dwPc'[w] # dwPc[w] =>
                    dwPc[w] = "send" /\ dwPc'[w] = "recv"
             /\ UNCHANGED <<cliMainVars, outVars, pipeVars>>]_vars

\* C16's case: a delivery has failed, and another attempt has been made
\* besides
C16_Witness ==
    /\ dispatcherErrors >= 1
    /\ failures >= 1
    /\ requests > dispatcherErrors
    /\ \E w \in Workers : dwPc[w] = "recv"

\* C17: with no webhook URL configured, a matched event is never enqueued:
\* no job is created, no dropped or error counter changes and no request is
\* made; Send on a client with the empty URL returns no error.
C17_NoSinkNoOp ==
    /\ libSend # "error"
    /\ ~HasWebhook =>
          /\ outPc # "enqueue"
          /\ jobs = <<>>
          /\ jobsAccepted = 0
          /\ dispatcherDropped = 0
          /\ dispatcherErrors = 0
          /\ requests = 0
          /\ \A w \in Workers : dwPc[w] = "none"

\* C17's case: with no URL, the output goroutine has handled a matched event
\* and main has returned; Send on the empty-URL client has returned nil
C17_Witness ==
    /\ ~HasWebhook
    /\ Len(outEvent.matched) > 0
    /\ mainPc = "done"
    /\ libSend = "nil"
    /\ requests = 0

\* C18: shutdown of the dispatcher is close-then-drain: when closeAndWait
\* has returned, every job that was accepted into the job queue has had its
\* delivery attempt, those in flight at the close included, the queue is
\* empty and every dispatcher worker has terminated.
C18_CloseThenDrain ==
    (HasWebhook /\ mainPc = "done") =>
        /\ jobs = <<>>
        /\ requests = jobsAccepted
        /\ \A w \in Workers : dwPc[w] = "done"

\* C18's case: closeAndWait has returned after two jobs were accepted
C18_Witness ==
    /\ HasWebhook
    /\ mainPc = "done"
    /\ jobsAccepted = 2
    /\ requests = 2

\* a job of the dispatcher is for a leaf domain of its event that matches a
\* domain of the event's match set
JobForMatchedLeaf(job) ==
    /\ Len(job.event.matched) > 0
    /\ \E k \in 1..Len(job.event.allDomains) : job.event.allDomains[k] = job.domain
    /\ \E j \in 1..Len(job.event.matched) : IsDomainMatch(job.domain, job.event.matched[j])

\* C36: during the shutdown no value is sent on a closed channel: only main
\* sends on eventQueue, and only before it closes it; only the output
\* goroutine sends on d.jobs, and d.jobs is closed only after the output
\* goroutine has returned.
C36_NoSendOnClosedChannel ==
    /\ [](jobsClosed => outPc = "done")
    /\ [][Len(outOffered') > Len(outOffered) =>
             /\ outPc = "enqueue"
             /\ ~jobsClosed
             /\ ~jobsClosed']_vars
    /\ [][Len(jobs') > Len(jobs) => outPc = "enqueue"]_vars
    /\ [][eventsReceived' # eventsReceived =>
             /\ mainPc = "loop"
             /\ ~eventQueueClosed]_vars
    /\ [][Len(eventQueue') > Len(eventQueue) => mainPc = "loop"]_vars

\* C36's case: d.jobs was closed with a job still queued, after the output
\* goroutine had drained eventQueue and returned
C36_Witness ==
    /\ mainPc = "closeWait"
    /\ outPc = "done"
    /\ eventQueue = <<>>
    /\ jobs # <<>>
    /\ jobsAccepted >= 1

\* C38: notification jobs are created only for events with a non-empty
\* match set: with an empty watch-list no job is offered, queued or dropped,
\* with or without a webhook; every job, queued or held by a worker, is for
\* a leaf domain of its event that matches a domain of the event's match
\* set, and so is every domain enqueue offered a job for.
C38_JobsOnlyForMatches ==
    /\ cliDomains = <<>> =>
          /\ outPc # "enqueue"
          /\ outOffered = <<>>
          /\ jobs = <<>>
          /\ jobsAccepted = 0
          /\ dispatcherDropped = 0
    /\ \A i \in 1..Len(jobs) : JobForMatchedLeaf(jobs[i])
    /\ \A w \in Workers : dwPc[w] = "send" => JobForMatchedLeaf(dwJob[w])
    /\ \A i \in 1..Len(outOffered) :
          JobForMatchedLeaf([event |-> outEvent, domain |-> outOffered[i]])

\* C38's case: enqueue has gone through an event with one leaf domain
\* under the watched name and one that is not; the one job is queued
C38_Witness ==
    /\ HasWebhook
    /\ outPc = "recv"
    /\ outEvent = [allDomains |-> <<DomBA, DomBdotA>>, matched |-> cliDomains]
    /\ outOffered = <<DomBdotA>>
    /\ Len(jobs) = 1
    /\ jobs[1].domain = DomBdotA

\* events main sent to eventQueue, and events the output goroutine took
forwarded == eventsReceived - droppedEvents

formatted == forwarded - Len(eventQueue)

\* C39: in main's loop every event received from the Monitor is either sent
\* to eventQueue or counted in droppedEvents, the loop is never blocked by
\* the send, and the output goroutine eventually takes and formats every
\* event that was sent to eventQueue, those queued at the close included:
\* it returns only when the closed queue is empty.
C39_ForwardedOrCounted ==
    /\ [](forwarded >= Len(eventQueue) /\ droppedEvents >= 0)
    /\ [][eventsReceived' = eventsReceived + 1 =>
             \/ /\ Len(eventQueue') = Len(eventQueue) + 1
                /\ droppedEvents' = droppedEvents
             \/ /\ eventQueue' = eventQueue
                /\ Len(eventQueue) = eventQueueSize
                /\ droppedEvents' = droppedEvents + 1]_vars
    /\ [][eventsReceived' = eventsReceived =>
             /\ droppedEvents' = droppedEvents
             /\ \/ eventQueue' = eventQueue
                \/ /\ eventQueue # <<>>
                   /\ eventQueue' = Tail(eventQueue)
                   /\ outEvent' = Head(eventQueue)]_vars
    /\ []((mainPc = "loop" /\ eventsReceived < MaxEvents) => ENABLED MainReceive)
    /\ [](outPc = "done" => eventQueue = <<>>)
    /\ \A n \in 1..MaxEvents : (forwarded >= n) ~> (formatted >= n)

\* C39's case: an event was forwarded, one was dropped at the full queue,
\* and the close found an event still queued
C39_Witness ==
    /\ mainPc = "outputWait"
    /\ eventsReceived = 2
    /\ droppedEvents = 1
    /\ eventQueue # <<>>
    /\ outPc # "done"

(***************************************************************************)
(* SpecSend: Client.Send with and without a URL, on a transport failure    *)
(* and on every status code from below 200 to above 300.                   *)
(***************************************************************************)
SendStatuses == (StatusOK - MaxStatusSpread)..(StatusMultipleChoices + MaxStatusSpread)

SendOutcomes ==
    {[transport |-> TRUE, status |-> 0]} \cup
    {[transport |-> FALSE, status |-> c] : c \in SendStatuses}

apartFromTail == <<matchVars, backoffVars, pipeVars, filterVars, classVars, cliVars>>

ApartFromTailIdle ==
    /\ MatchIdle
    /\ BackoffIdle
    /\ PipeIdle
    /\ FilterIdle
    /\ ClassIdle
    /\ CliIdle

InitSend ==
    /\ sUrl \in {"", HookURL}
    /\ sOutcome \in SendOutcomes
    /\ sErr = FALSE
    /\ sRequests = 0
    /\ sPc = "args"
    /\ ApartFromTailIdle
    /\ NewIdle
    /\ OrderIdle
    /\ RaceIdle

\* one call of Send
ClientSend ==
    /\ sPc = "args"
    /\ sErr' = Send(sUrl, sOutcome).err
    /\ sRequests' = Send(sUrl, sOutcome).requests
    /\ sPc' = "done"
    /\ UNCHANGED <<sUrl, sOutcome, apartFromTail, newVars, orderVars, raceVars>>

NextSend == ClientSend

SpecSend == InitSend /\ [][NextSend]_vars

DefaultBufferSize == 50000
MinBufferSize == 100
DefaultWorkerCount == 4
\* the default the README documents for the buffer size
DocumentedBufferSize == 10000

BufferOptions ==
    {NoOption} \cup
    {[set |-> TRUE, value |-> v] :
        v \in {-1, 0, 1, MinBufferSize - 1, MinBufferSize, MinBufferSize + 1,
               DocumentedBufferSize, DefaultBufferSize, DefaultBufferSize + 1}}

WorkerOptions ==
    {NoOption} \cup
    {[set |-> TRUE, value |-> v] : v \in -1..(DefaultWorkerCount + 1)}

\* New: config.BufferSize after the options and the "reasonable defaults"
newBufferSize(opt) ==
    LET configured == IF opt.set THEN opt.value ELSE DefaultBufferSize
    IN  IF configured < MinBufferSize THEN DefaultBufferSize ELSE configured

\* New: config.WorkerCount after the options and the "reasonable defaults"
newWorkerCount(opt) ==
    LET configured == IF opt.set THEN opt.value ELSE DefaultWorkerCount
    IN  IF configured < 1 THEN DefaultWorkerCount ELSE configured

InitNew ==
    /\ nBufferOpt \in BufferOptions
    /\ nWorkerOpt \in WorkerOptions
    /\ nBufferSize = 0
    /\ nWorkerCount = 0
    /\ nPc = "args"
    /\ ApartFromTailIdle
    /\ SendIdle
    /\ OrderIdle
    /\ RaceIdle

\* one call of New
NewMonitor ==
    /\ nPc = "args"
    /\ nBufferSize' = newBufferSize(nBufferOpt)
    /\ nWorkerCount' = newWorkerCount(nWorkerOpt)
    /\ nPc' = "done"
    /\ UNCHANGED <<nBufferOpt, nWorkerOpt, apartFromTail, sendVars, orderVars, raceVars>>

NextNew == NewMonitor

SpecNew == InitNew /\ [][NextNew]_vars

\* C26: when no buffer size or worker count is configured, or an unusable
\* one is given, the monitor uses the documented defaults: an event buffer
\* of 10000 and 4 workers.
C26_DocumentedDefaults ==
    nPc = "done" =>
        /\ (~nBufferOpt.set \/ nBufferOpt.value < 1) => nBufferSize = DocumentedBufferSize
        /\ (~nWorkerOpt.set \/ nWorkerOpt.value < 1) => nWorkerCount = DefaultWorkerCount

(***************************************************************************)
(* SpecOrder: the order of the events.  The messages conn.Read returns are *)
(* numbered in arrival order; each is a well-formed certificate update     *)
(* that yields an event, and the Event Channel has room for it.  Start     *)
(* launched oWorkers workers.                                              *)
(***************************************************************************)
InitOrder ==
    /\ oWorkers \in 1..WorkerCount
    /\ oArrived = 0
    /\ oQueue = <<>>
    /\ oHold = [w \in Workers |-> 0]
    /\ oEvents = <<>>
    /\ ApartFromTailIdle
    /\ SendIdle
    /\ NewIdle
    /\ RaceIdle

\* processMessages reads the next message and queues it, or drops it
OrderRead ==
    /\ oArrived < MaxArrivals
    /\ oArrived' = oArrived + 1
    /\ oQueue' = IF Len(oQueue) < OrderCap THEN Append(oQueue, oArrived + 1)
                 ELSE oQueue
    /\ UNCHANGED <<oWorkers, oHold, oEvents, apartFromTail, sendVars, newVars, raceVars>>

\* a worker receiving the newest message of the queue
OrderRecv_Newest(w) ==
    /\ w <= oWorkers
    /\ oHold[w] = 0
    /\ oQueue # <<>>
    /\ oHold' = [oHold EXCEPT ![w] = oQueue[Len(oQueue)]]
    /\ oQueue' = SubSeq(oQueue, 1, Len(oQueue) - 1)
    /\ UNCHANGED <<oWorkers, oArrived, oEvents, apartFromTail, sendVars, newVars, raceVars>>

\* processWorker receives from rawMessageChan
OrderRecv(w) ==
    /\ w <= oWorkers
    /\ oHold[w] = 0
    /\ oQueue # <<>>
    /\ oHold' = [oHold EXCEPT ![w] = Head(oQueue)]
    /\ oQueue' = Tail(oQueue)
    /\ UNCHANGED <<oWorkers, oArrived, oEvents, apartFromTail, sendVars, newVars, raceVars>>

\* processWorker runs processCertificate, which sends the message's event
OrderProcess(w) ==
    /\ oHold[w] # 0
    /\ oEvents' = Append(oEvents, [id |-> oHold[w], worker |-> w])
    /\ oHold' = [oHold EXCEPT ![w] = 0]
    /\ UNCHANGED <<oWorkers, oArrived, oQueue, apartFromTail, sendVars, newVars, raceVars>>

NextOrder ==
    \/ OrderRead
    \/ \E w \in Workers : OrderRecv(w)
    \/ \E w \in Workers : OrderProcess(w)

SpecOrder == InitOrder /\ [][NextOrder]_vars

\* C30: messages are processed in arrival order per worker: the events of
\* one worker are in the order their messages arrived, so with a single
\* worker the Event Channel is in arrival order; across two or more workers
\* the order is not kept (C30_Witness is such an execution).
C30_ArrivalOrderPerWorker ==
    /\ \A i, j \in 1..Len(oEvents) :
          (i < j /\ oEvents[i].worker = oEvents[j].worker) =>
              oEvents[i].id < oEvents[j].id
    /\ oWorkers = 1 =>
          \A i, j \in 1..Len(oEvents) : i < j => oEvents[i].id < oEvents[j].id

\* C30's case: with two workers, the event of the second message is on the
\* Event Channel before the event of the first
C30_Witness ==
    /\ oWorkers = 2
    /\ Len(oEvents) = 2
    /\ oEvents[1].id = 2
    /\ oEvents[2].id = 1

(***************************************************************************)
(* SpecRace: Start() and Stop() called on one Monitor by rCallers          *)
(* goroutines.  Start releases m.mu before it launches the workers and     *)
(* monitor(); Stop holds m.mu from its first line to its return.  A        *)
(* launched goroutine reads m.stopChan when it enters a select, and stays  *)
(* blocked on the channel it read (m.stopChan is replaced only while the   *)
(* WaitGroup's counter is zero, so a worker that loops reads the same      *)
(* channel again).  config.Context is never cancelled.                     *)
(***************************************************************************)
InitRace ==
    /\ rCallers \in Callers
    /\ rCalls = 0
    /\ rPc = [c \in Callers |-> "idle"]
    /\ rI = [c \in Callers |-> 0]
    /\ rLast = [c \in Callers |-> "none"]
    /\ rMu = 0
    /\ rIsRunning = FALSE
    /\ rStopChan = 0
    /\ rClosed = {}
    /\ rWg = 0
    /\ rNewWorkers = 0
    /\ rWorkers = [ch \in StopChans |-> 0]
    /\ rNewMonitors = 0
    /\ rMonitors = [ch \in StopChans |-> 0]
    /\ ApartFromTailIdle
    /\ SendIdle
    /\ NewIdle
    /\ OrderIdle

raceOthers == <<apartFromTail, sendVars, newVars, orderVars>>

RECURSIVE SumUpTo(_, _)
\* f[0] + ... + f[n]
SumUpTo(f, n) == IF n = 0 THEN f[0] ELSE f[n] + SumUpTo(f, n - 1)

workersAlive == rNewWorkers + SumUpTo(rWorkers, MaxCalls)

monitorsAlive == rNewMonitors + SumUpTo(rMonitors, MaxCalls)

\* Start launching the goroutines although the monitor is running
RaceStart_Relaunch(c) ==
    /\ c <= rCallers
    /\ rPc[c] = "idle"
    /\ rMu = 0
    /\ rCalls < MaxCalls
    /\ rCalls' = rCalls + 1
    /\ rIsRunning' = TRUE
    /\ rPc' = [rPc EXCEPT ![c] = "launch"]
    /\ rI' = [rI EXCEPT ![c] = 0]
    /\ rLast' = [rLast EXCEPT ![c] = IF rIsRunning THEN "startNoop" ELSE "start"]
    /\ UNCHANGED <<rCallers, rMu, rStopChan, rClosed, rWg, raceTaskVars,
                   raceOthers>>

\* Start from m.mu.Lock() to m.mu.Unlock(): it returns when the monitor is
\* running, and sets isRunning otherwise
RaceStart(c) ==
    /\ c <= rCallers
    /\ rPc[c] = "idle"
    /\ rMu = 0
    /\ rCalls < MaxCalls
    /\ rCalls' = rCalls + 1
    /\ IF rIsRunning
       THEN /\ rLast' = [rLast EXCEPT ![c] = "startNoop"]
            /\ UNCHANGED <<rIsRunning, rPc, rI>>
       ELSE /\ rIsRunning' = TRUE
            /\ rPc' = [rPc EXCEPT ![c] = "launch"]
            /\ rI' = [rI EXCEPT ![c] = 0]
            /\ rLast' = [rLast EXCEPT ![c] = "start"]
    /\ UNCHANGED <<rCallers, rMu, rStopChan, rClosed, rWg, raceTaskVars,
                   raceOthers>>

\* one round of Start's loop: m.wg.Add(1); go m.processWorker()
RaceLaunchWorker(c) ==
    /\ rPc[c] = "launch"
    /\ rI[c] < WorkerCount
    /\ rI' = [rI EXCEPT ![c] = rI[c] + 1]
    /\ rWg' = rWg + 1
    /\ rNewWorkers' = rNewWorkers + 1
    /\ UNCHANGED <<rCallers, rCalls, rPc, rLast, rMu, rIsRunning, rStopChan,
                   rClosed, rWorkers, rNewMonitors, rMonitors, raceOthers>>

\* the end of Start: m.wg.Add(1); go m.monitor()
RaceLaunchMonitor(c) ==
    /\ rPc[c] = "launch"
    /\ rI[c] = WorkerCount
    /\ rPc' = [rPc EXCEPT ![c] = "idle"]
    /\ rWg' = rWg + 1
    /\ rNewMonitors' = rNewMonitors + 1
    /\ UNCHANGED <<rCallers, rCalls, rI, rLast, rMu, rIsRunning, rStopChan,
                   rClosed, rNewWorkers, rWorkers, rMonitors, raceOthers>>

\* Stop from m.mu.Lock() to m.wg.Wait(): it returns when the monitor is not
\* running, and closes the stop channel otherwise
RaceStop(c) ==
    /\ c <= rCallers
    /\ rPc[c] = "idle"
    /\ rMu = 0
    /\ rCalls < MaxCalls
    /\ rCalls' = rCalls + 1
    /\ IF rIsRunning
       THEN /\ rMu' = c
            /\ rClosed' = rClosed \cup {rStopChan}
            /\ rPc' = [rPc EXCEPT ![c] = "wait"]
            /\ rLast' = [rLast EXCEPT ![c] = "stop"]
       ELSE /\ rLast' = [rLast EXCEPT ![c] = "stopNoop"]
            /\ UNCHANGED <<rMu, rClosed, rPc>>
    /\ UNCHANGED <<rCallers, rI, rIsRunning, rStopChan, rWg, raceTaskVars,
                   raceOthers>>

\* Stop from the return of m.wg.Wait() on: the counter is zero
RaceStopEnd(c) ==
    /\ rPc[c] = "wait"
    /\ rWg = 0
    /\ rIsRunning' = FALSE
    /\ rStopChan' = rStopChan + 1
    /\ rMu' = 0
    /\ rPc' = [rPc EXCEPT ![c] = "idle"]
    /\ UNCHANGED <<rCallers, rCalls, rI, rLast, rClosed, rWg, raceTaskVars,
                   raceOthers>>

\* a launched worker enters its select
RaceWorkerSelect ==
    /\ rNewWorkers > 0
    /\ rNewWorkers' = rNewWorkers - 1
    /\ rWorkers' = [rWorkers EXCEPT ![rStopChan] = @ + 1]
    /\ UNCHANGED <<raceCallVars, rMu, rIsRunning, rStopChan, rClosed, rWg,
                   rNewMonitors, rMonitors, raceOthers>>

\* a worker's select finds its stop channel closed: it returns, wg.Done
RaceWorkerStop(ch) ==
    /\ rWorkers[ch] > 0
    /\ ch \in rClosed
    /\ rWorkers' = [rWorkers EXCEPT ![ch] = @ - 1]
    /\ rWg' = rWg - 1
    /\ UNCHANGED <<raceCallVars, rMu, rIsRunning, rStopChan, rClosed,
                   rNewWorkers, rNewMonitors, rMonitors, raceOthers>>

\* the goroutine monitor() starts enters its select
RaceWatcherSelect ==
    /\ rNewMonitors > 0
    /\ rNewMonitors' = rNewMonitors - 1
    /\ rMonitors' = [rMonitors EXCEPT ![rStopChan] = @ + 1]
    /\ UNCHANGED <<raceCallVars, rMu, rIsRunning, rStopChan, rClosed, rWg,
                   rNewWorkers, rWorkers, raceOthers>>

\* monitor() returns before its watcher has started: one of its own selects
\* finds m.stopChan closed
RaceNewMonitorStop ==
    /\ rNewMonitors > 0
    /\ rStopChan \in rClosed
    /\ rNewMonitors' = rNewMonitors - 1
    /\ rWg' = rWg - 1
    /\ UNCHANGED <<raceCallVars, rMu, rIsRunning, rStopChan, rClosed,
                   rNewWorkers, rWorkers, rMonitors, raceOthers>>

\* monitor() returns: its watcher's channel is closed (the watcher cancels
\* ctx), or one of its own selects finds m.stopChan closed
RaceMonitorStop(ch) ==
    /\ rMonitors[ch] > 0
    /\ ch \in rClosed \/ rStopChan \in rClosed
    /\ rMonitors' = [rMonitors EXCEPT ![ch] = @ - 1]
    /\ rWg' = rWg - 1
    /\ UNCHANGED <<raceCallVars, rMu, rIsRunning, rStopChan, rClosed,
                   rNewWorkers, rWorkers, rNewMonitors, raceOthers>>

NextRace ==
    \/ \E c \in Callers : RaceStart(c)
    \/ \E c \in Callers : RaceLaunchWorker(c)
    \/ \E c \in Callers : RaceLaunchMonitor(c)
    \/ \E c \in Callers : RaceStop(c)
    \/ \E c \in Callers : RaceStopEnd(c)
    \/ RaceWorkerSelect
    \/ \E ch \in StopChans : RaceWorkerStop(ch)
    \/ RaceWatcherSelect
    \/ RaceNewMonitorStop
    \/ \E ch \in StopChans : RaceMonitorStop(ch)

SpecRace == InitRace /\ [][NextRace]_vars

callsIdle == \A c \in Callers : rPc[c] = "idle"

\* C31: under every interleaving of Start() and Stop() calls from concurrent
\* callers at most one control loop is alive, so that one connection is open
\* at a time and one goroutine accesses reconnectAttempts.
C31_OneControlLoop == monitorsAlive <= 1

\* C32: Start() on a running monitor launches nothing: with the calls made
\* one after the other, a running monitor has exactly WorkerCount workers and
\* one control loop whenever no call is in progress, after any number of
\* Start() calls, and the call that finds the monitor running (a call that
\* takes m.mu on a running monitor and closes no channel) changes neither
\* the goroutines nor the WaitGroup and returns.
C32_StartIdempotent ==
    /\ [](rCallers = 1 /\ rIsRunning /\ callsIdle =>
             /\ workersAlive = WorkerCount
             /\ monitorsAlive = 1
             /\ rWg = WorkerCount + 1)
    /\ [][(rCalls' # rCalls /\ rIsRunning /\ rClosed' = rClosed) =>
             /\ \E c \in Callers : rLast'[c] = "startNoop"
             /\ UNCHANGED <<rPc, rIsRunning, rWg, raceTaskVars>>]_vars

\* C32's case: the one caller's second Start() in a row has returned
C32_Witness ==
    /\ rCallers = 1
    /\ rLast[1] = "startNoop"
    /\ rCalls = 2
    /\ rStopChan = 0
    /\ rIsRunning
    /\ callsIdle
    /\ workersAlive = WorkerCount
    /\ monitorsAlive = 1

\* C33: under every interleaving of a Start() with a concurrent Stop(),
\* whenever isRunning is false and no call is in progress, no worker and no
\* control loop is alive.
C33_NoTaskSurvivesStop ==
    (~rIsRunning /\ callsIdle) => (workersAlive = 0 /\ monitorsAlive = 0)

(***************************************************************************)
(* Spec: the Monitor.  One caller calls Start() and Stop(); the goroutines *)
(* Start() launches, the server, the owner of config.Context and the       *)
(* consumer of Events() run concurrently with it.                          *)
(***************************************************************************)
Init ==
    /\ \E watch \in WatchLists : Constructed(watch)
    /\ MatchIdle
    /\ BackoffIdle
    /\ ExtIdle

others == <<matchVars, backoffVars, Domains, extVars>>

\* Monitor.Start zeroing the dropped-counter of the run before
Start_ResetCounter ==
    /\ callerPc = "idle"
    /\ ~isRunning
    /\ starts < MaxStarts
    /\ isRunning' = TRUE
    /\ starts' = starts + 1
    /\ wPc' = [w \in Workers |-> "recv"]
    /\ wgCount' = wgCount + WorkerCount + 1
    /\ monPc' = "top"
    /\ monCtxDone' = parentCtxDone
    /\ droppedMessages' = 0
    /\ UNCHANGED <<stopClosed, callerPc, parentCtxDone, reconnectAttempts, ping,
                   rawMessageChan, rawReceived, rawEnqueued, wData, eventsChan,
                   others>>

\* Monitor.Start on a stopped monitor: the workers and monitor() are launched;
\* monitor() derives its ctx and starts the goroutine that cancels it on stop
Start ==
    /\ callerPc = "idle"
    /\ ~isRunning
    /\ starts < MaxStarts
    /\ isRunning' = TRUE
    /\ starts' = starts + 1
    /\ wPc' = [w \in Workers |-> "recv"]
    /\ wgCount' = wgCount + WorkerCount + 1
    /\ monPc' = "top"
    /\ monCtxDone' = parentCtxDone
    /\ UNCHANGED <<stopClosed, callerPc, parentCtxDone, reconnectAttempts, ping,
                   queueVars, wData, eventsChan, others>>

\* Monitor.Start on a running monitor returns at once
StartNoop ==
    /\ callerPc = "idle"
    /\ isRunning
    /\ UNCHANGED vars

\* Monitor.Stop up to m.wg.Wait(): the stop channel is closed
StopBegin ==
    /\ callerPc = "idle"
    /\ isRunning
    /\ stopClosed' = TRUE
    /\ callerPc' = "stopWait"
    /\ UNCHANGED <<isRunning, wgCount, starts, parentCtxDone, monVars, queueVars,
                   workerVars, others>>

\* Monitor.Stop returning without m.wg.Wait()
StopEnd_NoWait ==
    /\ callerPc = "stopWait"
    /\ isRunning' = FALSE
    /\ stopClosed' = FALSE
    /\ callerPc' = "idle"
    /\ UNCHANGED <<wgCount, starts, parentCtxDone, monVars, queueVars, workerVars,
                   others>>

\* Monitor.Stop leaving the closed stop channel in place
StopEnd_KeepClosed ==
    /\ callerPc = "stopWait"
    /\ wgCount = 0
    /\ isRunning' = FALSE
    /\ callerPc' = "idle"
    /\ UNCHANGED <<stopClosed, wgCount, starts, parentCtxDone, monVars, queueVars,
                   workerVars, others>>

\* Monitor.Stop from m.wg.Wait() on: a fresh stop channel replaces the closed one
StopEnd ==
    /\ callerPc = "stopWait"
    /\ wgCount = 0
    /\ isRunning' = FALSE
    /\ stopClosed' = FALSE
    /\ callerPc' = "idle"
    /\ UNCHANGED <<wgCount, starts, parentCtxDone, monVars, queueVars, workerVars,
                   others>>

\* Monitor.Stop without the isRunning check: the stop channel is closed
StopNoop_CloseAnyway ==
    /\ callerPc = "idle"
    /\ ~isRunning
    /\ stopClosed' = TRUE
    /\ callerPc' = "stopWait"
    /\ UNCHANGED <<isRunning, wgCount, starts, parentCtxDone, monVars, queueVars,
                   workerVars, others>>

\* Monitor.Stop on a monitor that is not running returns at once
StopNoop ==
    /\ callerPc = "idle"
    /\ ~isRunning
    /\ UNCHANGED vars

\* the owner of config.Context cancels it; the derived ctx is cancelled with it
CtxCancel ==
    /\ ~parentCtxDone
    /\ parentCtxDone' = TRUE
    /\ monCtxDone' = TRUE
    /\ UNCHANGED <<isRunning, stopClosed, wgCount, callerPc, starts, monPc,
                   reconnectAttempts, ping, queueVars, workerVars, others>>

\* monitor() returns: wg.Done and the deferred cancel(), on which the goroutine
\* watching the stop channel returns too
MonReturn ==
    /\ monPc' = "done"
    /\ wgCount' = wgCount - 1
    /\ monCtxDone' = TRUE

\* connectAndProcess returning without pingCancel()
PingCancelled_NoCancel == ping' = ping

\* connectAndProcess returns after a connection: the deferred pingCancel(), on
\* which pingLoop returns
PingCancelled == ping' = "none"

\* the selects of monitor() without their stopChan case
stopSignalled_CtxOnly == monCtxDone

\* the selects of monitor() without their ctx.Done() case
stopSignalled_StopOnly == stopClosed

stopSignalled == monCtxDone \/ stopClosed

\* the select at the top of monitor()'s loop
MonTop ==
    /\ monPc = "top"
    /\ IF stopSignalled
       THEN /\ MonReturn
            /\ UNCHANGED <<reconnectAttempts, ping>>
       ELSE /\ monPc' = "dial"
            /\ UNCHANGED <<wgCount, monCtxDone, reconnectAttempts, ping>>
    /\ UNCHANGED <<isRunning, stopClosed, callerPc, starts, parentCtxDone,
                   queueVars, workerVars, others>>

\* websocket.Dial fails: connectAndProcess returns false
MonDialFail ==
    /\ monPc = "dial"
    /\ reconnectAttempts < MaxFailures \/ monCtxDone
    /\ reconnectAttempts' = reconnectAttempts + 1
    /\ monPc' = "check"
    /\ UNCHANGED <<lifeVars, monCtxDone, ping, queueVars, workerVars, others>>

\* websocket.Dial succeeds: the ping goroutine is started
MonDialOK ==
    /\ monPc = "dial"
    /\ ~monCtxDone
    /\ monPc' = "connected"
    /\ ping' = "running"
    /\ UNCHANGED <<lifeVars, monCtxDone, reconnectAttempts, queueVars, workerVars,
                   others>>

\* the select at the top of processMessages' loop; on a stop signal it returns
\* true and monitor() resets the counter
MonProcTop ==
    /\ monPc = "connected"
    /\ IF stopSignalled
       THEN /\ reconnectAttempts' = 0
            /\ monPc' = "check"
            /\ PingCancelled
       ELSE /\ monPc' = "read"
            /\ UNCHANGED <<reconnectAttempts, ping>>
    /\ UNCHANGED <<lifeVars, monCtxDone, queueVars, workerVars, others>>

\* the send of processMessages evicting the oldest message of a full queue
enqueueRaw_DropOldest(msg) ==
    IF Len(rawMessageChan) < RawCap
    THEN /\ rawMessageChan' = Append(rawMessageChan, msg)
         /\ rawEnqueued' = rawEnqueued + 1
         /\ UNCHANGED droppedMessages
    ELSE /\ rawMessageChan' = Append(Tail(rawMessageChan), msg)
         /\ droppedMessages' = droppedMessages + 1
         /\ UNCHANGED rawEnqueued

\* the send of processMessages dropping without counting
enqueueRaw_NoCount(msg) ==
    IF Len(rawMessageChan) < RawCap
    THEN /\ rawMessageChan' = Append(rawMessageChan, msg)
         /\ rawEnqueued' = rawEnqueued + 1
         /\ UNCHANGED droppedMessages
    ELSE UNCHANGED <<rawMessageChan, rawEnqueued, droppedMessages>>

\* the non-blocking send of processMessages
enqueueRaw(msg) ==
    IF Len(rawMessageChan) < RawCap
    THEN /\ rawMessageChan' = Append(rawMessageChan, msg)
         /\ rawEnqueued' = rawEnqueued + 1
         /\ UNCHANGED droppedMessages
    ELSE /\ droppedMessages' = droppedMessages + 1
         /\ UNCHANGED <<rawMessageChan, rawEnqueued>>

\* conn.Read returns a message, which is queued or dropped
MonRead ==
    /\ monPc = "read"
    /\ ~monCtxDone
    /\ rawReceived < MaxMsgs
    /\ \E msg \in RawMessages :
          /\ rawReceived' = rawReceived + 1
          /\ enqueueRaw(msg)
    /\ monPc' = "connected"
    /\ UNCHANGED <<lifeVars, monCtxDone, reconnectAttempts, ping, workerVars,
                   others>>

\* conn.Read fails (the connection is lost, or ctx is cancelled):
\* connectAndProcess returns false
MonReadErr ==
    /\ monPc = "read"
    /\ reconnectAttempts < MaxFailures \/ monCtxDone
    /\ reconnectAttempts' = reconnectAttempts + 1
    /\ monPc' = "check"
    /\ PingCancelled
    /\ UNCHANGED <<lifeVars, monCtxDone, queueVars, workerVars, others>>

\* monitor() giving up after a failed connection
MonCheck_Fatal ==
    /\ monPc = "check"
    /\ IF stopSignalled \/ reconnectAttempts > 0
       THEN MonReturn
       ELSE /\ monPc' = "backoff"
            /\ UNCHANGED <<wgCount, monCtxDone>>
    /\ UNCHANGED <<isRunning, stopClosed, callerPc, starts, parentCtxDone,
                   reconnectAttempts, ping, queueVars, workerVars, others>>

\* the select after connectAndProcess: return, or compute the backoff and
\* start the timer
MonCheck ==
    /\ monPc = "check"
    /\ IF stopSignalled
       THEN MonReturn
       ELSE /\ monPc' = "backoff"
            /\ UNCHANGED <<wgCount, monCtxDone>>
    /\ UNCHANGED <<isRunning, stopClosed, callerPc, starts, parentCtxDone,
                   reconnectAttempts, ping, queueVars, workerVars, others>>

\* the backoff timer fires
MonBackoffTimer ==
    /\ monPc = "backoff"
    /\ monPc' = "top"
    /\ UNCHANGED <<lifeVars, monCtxDone, reconnectAttempts, ping, queueVars,
                   workerVars, others>>

\* the backoff as a sleep that no signal interrupts
MonBackoffStop_Sleep ==
    /\ FALSE
    /\ UNCHANGED vars

\* the stop signal arrives during the backoff
MonBackoffStop ==
    /\ monPc = "backoff"
    /\ stopSignalled
    /\ MonReturn
    /\ UNCHANGED <<isRunning, stopClosed, callerPc, starts, parentCtxDone,
                   reconnectAttempts, ping, queueVars, workerVars, others>>

monAlive == monPc \notin {"none", "done"}

\* the goroutine monitor() starts to watch the stop channel sees it closed and
\* cancels ctx (once ctx is cancelled the goroutine has nothing left to do)
WatcherStop ==
    /\ monAlive
    /\ ~monCtxDone
    /\ stopClosed
    /\ monCtxDone' = TRUE
    /\ UNCHANGED <<lifeVars, monPc, reconnectAttempts, ping, queueVars, workerVars,
                   others>>

\* conn.Ping fails: pingLoop returns
PingFail ==
    /\ ping = "running"
    /\ ping' = "failed"
    /\ UNCHANGED <<lifeVars, monPc, monCtxDone, reconnectAttempts, queueVars,
                   workerVars, others>>

\* processWorker receives a raw message
WorkerRecv(w) ==
    /\ wPc[w] = "recv"
    /\ rawMessageChan # <<>>
    /\ wData' = [wData EXCEPT ![w] = Head(rawMessageChan)]
    /\ rawMessageChan' = Tail(rawMessageChan)
    /\ wPc' = [wPc EXCEPT ![w] = "process"]
    /\ UNCHANGED <<lifeVars, monVars, droppedMessages, rawReceived, rawEnqueued,
                   eventsChan, others>>

\* processWorker sees the stop channel closed and returns
WorkerStop(w) ==
    /\ wPc[w] = "recv"
    /\ stopClosed
    /\ wPc' = [wPc EXCEPT ![w] = "done"]
    /\ wgCount' = wgCount - 1
    /\ UNCHANGED <<isRunning, stopClosed, callerPc, starts, parentCtxDone, monVars,
                   queueVars, wData, eventsChan, others>>

\* processWorker returning when a message does not parse
WorkerProcess_AbortOnError(w) ==
    /\ wPc[w] = "process"
    /\ eventsChan' = sendAll(eventsChan, processCertificate(Domains, wData[w]))
    /\ wData' = [wData EXCEPT ![w] = NoMsg]
    /\ IF wData[w].liteOK
       THEN /\ wPc' = [wPc EXCEPT ![w] = "recv"]
            /\ UNCHANGED wgCount
       ELSE /\ wPc' = [wPc EXCEPT ![w] = "done"]
            /\ wgCount' = wgCount - 1
    /\ UNCHANGED <<isRunning, stopClosed, callerPc, starts, parentCtxDone, monVars,
                   queueVars, others>>

\* processWorker runs processCertificate on the message it holds
WorkerProcess(w) ==
    /\ wPc[w] = "process"
    /\ eventsChan' = sendAll(eventsChan, processCertificate(Domains, wData[w]))
    /\ wData' = [wData EXCEPT ![w] = NoMsg]
    /\ wPc' = [wPc EXCEPT ![w] = "recv"]
    /\ UNCHANGED <<lifeVars, monVars, queueVars, others>>

\* the consumer of Events() receives an event
ConsumeEvent ==
    /\ eventsChan # <<>>
    /\ eventsChan' = Tail(eventsChan)
    /\ UNCHANGED <<lifeVars, monVars, queueVars, wPc, wData, others>>

Next ==
    \/ Start
    \/ StartNoop
    \/ StopBegin
    \/ StopEnd
    \/ StopNoop
    \/ CtxCancel
    \/ MonTop
    \/ MonDialFail
    \/ MonDialOK
    \/ MonProcTop
    \/ MonRead
    \/ MonReadErr
    \/ MonCheck
    \/ MonBackoffTimer
    \/ MonBackoffStop
    \/ WatcherStop
    \/ PingFail
    \/ \E w \in Workers : WorkerRecv(w)
    \/ \E w \in Workers : WorkerStop(w)
    \/ \E w \in Workers : WorkerProcess(w)
    \/ ConsumeEvent

Spec == Init /\ [][Next]_vars

\* conn.Read returns once ctx is cancelled
MonReadCancelled == monCtxDone /\ MonReadErr

\* FairSpec: every goroutine that can take a step is scheduled, Dial
\* returns, the backoff timer fires, and a blocked Read returns when ctx is
\* cancelled; the server need not send and the connection need not fail
FairSpec ==
    /\ Spec
    /\ WF_vars(StopEnd)
    /\ WF_vars(WatcherStop)
    /\ WF_vars(MonTop)
    /\ WF_vars(MonDialFail \/ MonDialOK)
    /\ WF_vars(MonProcTop)
    /\ WF_vars(MonReadCancelled)
    /\ WF_vars(MonCheck)
    /\ WF_vars(MonBackoffTimer \/ MonBackoffStop)
    /\ \A w \in Workers : WF_vars(WorkerStop(w)) /\ WF_vars(WorkerProcess(w))

(***************************************************************************)
(* Claims about the Monitor (Spec).                                        *)
(***************************************************************************)
connectionOpen == monPc \in {"connected", "read"}

\* C4: the control loop resets the reconnect attempt counter to zero on every
\* successful connection, before entering the Connected state, so that while
\* a connection is open the counter is zero and a later loss starts the
\* backoff from a counter that connection reset.
C4_ResetOnConnect == connectionOpen => reconnectAttempts = 0

\* C7: the enqueue of a raw message never blocks the read loop: conn.Read's
\* message can always be taken; when the queue is full the new message is
\* discarded, the dropped-counter goes up by exactly one, the queued messages
\* and their order stay as they are and the loop goes on; the queue never
\* holds more than its capacity.
C7_EnqueueNonBlocking ==
    /\ [](Len(rawMessageChan) <= RawCap)
    /\ []((monPc = "read" /\ ~monCtxDone /\ rawReceived < MaxMsgs) => ENABLED MonRead)
    /\ [][(rawReceived' = rawReceived + 1 /\ Len(rawMessageChan) = RawCap) =>
             /\ rawMessageChan' = rawMessageChan
             /\ droppedMessages' = droppedMessages + 1
             /\ monPc' = "connected"]_vars

\* C7's case: a message has been dropped and the queue is still full
C7_Witness ==
    /\ droppedMessages >= 1
    /\ Len(rawMessageChan) = RawCap
    /\ monPc = "connected"

\* C8: raw messages dropped + raw messages enqueued = raw messages received
\* in every reachable state; and as long as no worker has dequeued anything,
\* a queue of capacity N that was fed N+K messages holds exactly N and the
\* dropped-counter is K.
C8_RawConservation ==
    /\ droppedMessages + rawEnqueued = rawReceived
    /\ (rawEnqueued = Len(rawMessageChan) /\ rawReceived >= RawCap) =>
          /\ Len(rawMessageChan) = RawCap
          /\ droppedMessages = rawReceived - RawCap

\* C8's case: more messages than the capacity were fed with no worker
\* dequeuing; the excess was dropped
C8_Witness ==
    /\ rawEnqueued = Len(rawMessageChan)
    /\ rawReceived > RawCap
    /\ Len(rawMessageChan) = RawCap
    /\ droppedMessages = rawReceived - RawCap

\* worker w's step is its run of processCertificate
Processes(w) == wPc[w] = "process" /\ wPc'[w] = "recv"

\* C9: every event a worker builds is either placed on the Event Channel or
\* counted in a dropped-counter of the Monitor (events built = events sent +
\* events dropped); droppedMessages is the only counter the Monitor has.
C9_EventSentOrCounted ==
    [][\A w \in Workers :
          (Processes(w) /\ processCertificate(Domains, wData[w]) # <<>>) =>
              \/ Len(eventsChan') = Len(eventsChan) + 1
              \/ droppedMessages' = droppedMessages + 1]_vars

WellFormedUpdate(msg) ==
    msg.liteOK /\ msg.fullOK /\ msg.messageType = CertificateUpdate

\* C10: with an empty watch-list, every well-formed "certificate_update"
\* message a worker dequeued yields exactly one Event, with an empty match
\* set, when the Event Channel has room.
C10_EmptyWatchListDeliversAll ==
    [][\A w \in Workers :
          (/\ Processes(w)
           /\ Domains = <<>>
           /\ WellFormedUpdate(wData[w])
           /\ Len(eventsChan) < EventCap) =>
              eventsChan' = Append(eventsChan,
                                   [allDomains |-> wData[w].allDomains,
                                    matched |-> <<>>])]_vars

\* C10's case: with no watch-list, the event of a certificate that matches no
\* watched name is on the Event Channel
C10_Witness ==
    /\ Domains = <<>>
    /\ eventsChan = <<[allDomains |-> <<DomBA>>, matched |-> <<>>]>>

\* C19: once Stop() has closed the stop channel the control loop starts no
\* new connection attempt, and the control loop and every worker eventually
\* terminate, so that Stop() returns.
C19_StopTerminates ==
    /\ [][stopClosed => ~(monPc # "dial" /\ monPc' = "dial")]_vars
    /\ (callerPc = "stopWait") ~>
           (/\ callerPc = "idle"
            /\ ~isRunning
            /\ ~monAlive
            /\ \A w \in Workers : wPc[w] = "done")

\* C19's case: Stop() has returned on a monitor that had read messages
\* from an open connection; nothing is left running
C19_Witness ==
    /\ callerPc = "idle"
    /\ ~isRunning
    /\ ~parentCtxDone
    /\ rawReceived >= 1
    /\ monPc = "done"
    /\ \A w \in Workers : wPc[w] = "done"

\* C20: Stop() on a monitor that is not running, because it was never
\* started or has been stopped, returns at once and changes nothing of the
\* Monitor, so any number of Stop() calls in a row leave it as one call
\* does; and whenever the monitor is stopped no task of the pipeline is
\* alive.
C20_StopIdempotent ==
    /\ []((callerPc = "idle" /\ ~isRunning) =>
             /\ ~monAlive
             /\ \A w \in Workers : wPc[w] \in {"none", "done"}
             /\ ping # "running"
             /\ wgCount = 0
             /\ ~stopClosed)
    /\ [][(~isRunning /\ ~isRunning') =>
             UNCHANGED <<stopClosed, wgCount, callerPc, starts, monPc,
                         reconnectAttempts, ping, queueVars, wPc, wData>>]_vars

\* C20's case: the monitor was started once and stopped; a further Stop()
\* finds it not running
C20_Witness ==
    /\ callerPc = "idle"
    /\ ~isRunning
    /\ starts = 1
    /\ monPc = "done"
    /\ wgCount = 0
    /\ ~stopClosed
    /\ ENABLED StopNoop

\* C21: connection errors are never fatal: after a failed Dial or a failed
\* Read the control loop waits out the backoff, goes back to the top of its
\* loop and dials again, unless a stop signal comes first; it returns only
\* when the stop channel is closed or its context is cancelled.
C21_ConnectionErrorsNotFatal ==
    /\ [][(monPc # "done" /\ monPc' = "done") => stopSignalled]_vars
    /\ [][(monPc = "check" /\ monPc' # "check") => monPc' \in {"backoff", "done"}]_vars
    /\ [][(monPc = "backoff" /\ monPc' # "backoff") => monPc' \in {"top", "done"}]_vars
    /\ (monPc = "check" /\ ~stopSignalled) ~> (monPc = "dial" \/ stopSignalled)

\* C21's case: after a failure and its backoff the loop is dialling again
C21_Witness ==
    /\ monPc = "dial"
    /\ reconnectAttempts >= 1
    /\ ~stopSignalled

C24_EventsAtMostDecoded ==
    /\ [][rawMessageChan' # rawMessageChan /\ rawEnqueued' = rawEnqueued =>
             /\ rawMessageChan' = Tail(rawMessageChan)
             /\ \E w \in Workers :
                    /\ wPc[w] = "recv" /\ wPc'[w] = "process"
                    /\ wData'[w] = Head(rawMessageChan)
                    /\ \A v \in Workers \ {w} : wData'[v] = wData[v] /\ wPc'[v] = wPc[v]]_vars
    /\ [][Len(eventsChan') > Len(eventsChan) =>
             /\ Len(eventsChan') = Len(eventsChan) + 1
             /\ \E w \in Workers :
                    /\ Processes(w)
                    /\ wData[w].liteOK /\ wData[w].fullOK
                    /\ wData'[w] = NoMsg
                    /\ \A v \in Workers \ {w} : wPc'[v] = wPc[v]]_vars
    /\ [](\A w \in Workers : wPc[w] # "process" => wData[w] = NoMsg)

\* C24's case: both messages received were taken by workers and processed,
\* and one event is on the Event Channel
C24_Witness ==
    /\ rawEnqueued = 2
    /\ rawMessageChan = <<>>
    /\ \A w \in Workers : wPc[w] = "recv"
    /\ Len(eventsChan) = 1

\* C27: the backoff delay can be cut short: when the stop channel is closed
\* or the context cancelled while monitor() waits out a backoff, it can
\* return at once, and whether it does or the timer fires first, it returns
\* without another connection attempt.
C27_BackoffCancellable ==
    /\ []((monPc = "backoff" /\ stopSignalled) => ENABLED MonBackoffStop)
    /\ [][(monPc \in {"backoff", "top"} /\ stopSignalled) =>
             /\ monPc' \in {"backoff", "top", "done"}
             /\ stopSignalled' \/ monPc' = "done"]_vars
    /\ [][(monPc = "backoff" /\ monPc' = "done") =>
             /\ stopSignalled
             /\ wgCount' = wgCount - 1]_vars

\* C27's case: Stop() is waiting and monitor() is in a backoff
C27_Witness ==
    /\ monPc = "backoff"
    /\ stopClosed
    /\ callerPc = "stopWait"
    /\ reconnectAttempts >= 1

\* C28: a raw message that does not parse is dropped without an Event and
\* does not end the worker: after it the same worker is back at its
\* receive, alive, and takes the next message when there is one.
C28_MalformedNotFatal ==
    /\ [][\A w \in Workers :
             (wPc[w] = "process" /\ wPc'[w] # "process" /\ ~wData[w].liteOK) =>
                 /\ wPc'[w] = "recv"
                 /\ eventsChan' = eventsChan
                 /\ wgCount' = wgCount]_vars
    /\ [](\A w \in Workers :
             (wPc[w] = "recv" /\ rawMessageChan # <<>>) => ENABLED WorkerRecv(w))

\* C28's case: a worker holds a malformed message while the next message
\* waits in the queue
C28_Witness ==
    \E w \in Workers :
        /\ wPc[w] = "process"
        /\ wData[w] = MsgMalformed
        /\ rawMessageChan # <<>>

workersRunning == \A w \in Workers : wPc[w] \in {"recv", "process"}

workersDone == \A w \in Workers : wPc[w] = "done"

\* C34: the monitor is restartable: a Start() after a Stop() that returned
\* launches WorkerCount workers and a control loop on a fresh, open stop
\* channel, so that they stay alive until the next Stop() is called (the
\* control loop as long as config.Context is live), and that Stop()
\* terminates them again and returns.
C34_Restartable ==
    /\ [][(~isRunning /\ isRunning' /\ starts >= 1) =>
             /\ ~stopClosed'
             /\ \A w \in Workers : wPc'[w] = "recv"
             /\ monPc' = "top"
             /\ wgCount' = WorkerCount + 1]_vars
    /\ []((starts >= 2 /\ isRunning /\ callerPc = "idle") =>
             /\ workersRunning
             /\ ~parentCtxDone => monAlive)
    /\ (starts >= 2 /\ callerPc = "stopWait") ~>
           (/\ callerPc = "idle"
            /\ ~isRunning
            /\ ~monAlive
            /\ workersDone)

\* C34's case: the monitor was started, stopped, started again, and the
\* second Stop() has returned with nothing left running
C34_Witness ==
    /\ starts >= 2
    /\ callerPc = "idle"
    /\ ~isRunning
    /\ ~stopClosed
    /\ ~parentCtxDone
    /\ monPc = "done"
    /\ workersDone
    /\ wgCount = 0

\* C35: after Stop() has returned and until the next Start() no worker is
\* alive, no event is added to the Event Channel, and the raw messages that
\* were queued when Stop() returned stay queued: none is processed and none
\* is counted as dropped.
C35_StoppedMonitorIsQuiet ==
    /\ []((callerPc = "idle" /\ ~isRunning /\ starts >= 1) => workersDone)
    /\ [][~isRunning' =>
             /\ rawMessageChan' = rawMessageChan
             /\ droppedMessages' = droppedMessages
             /\ Len(eventsChan') <= Len(eventsChan)]_vars

\* C35's case: Stop() has returned with a raw message left in the queue
C35_Witness ==
    /\ callerPc = "idle"
    /\ ~isRunning
    /\ starts >= 1
    /\ workersDone
    /\ rawMessageChan # <<>>

\* C37: when config.Context is cancelled and Stop() is not called, the
\* control loop starts no further connection attempt and terminates, while
\* the workers stay alive and isRunning stays true: only Stop() resets it.
\* A Stop() after the cancellation terminates the workers and returns.
C37_ContextCancelStopsControlLoopOnly ==
    /\ [][parentCtxDone => ~(monPc # "dial" /\ monPc' = "dial")]_vars
    /\ (parentCtxDone /\ monAlive) ~> ~monAlive
    /\ []((parentCtxDone /\ isRunning /\ callerPc = "idle") => workersRunning)
    /\ [][(isRunning /\ ~isRunning') => callerPc = "stopWait"]_vars
    /\ (parentCtxDone /\ callerPc = "stopWait") ~>
           (callerPc = "idle" /\ ~isRunning /\ workersDone)

\* C37's case: the context was cancelled, the control loop has returned, and
\* the monitor still counts as running with its workers alive
C37_Witness ==
    /\ parentCtxDone
    /\ monPc = "done"
    /\ isRunning
    /\ callerPc = "idle"
    /\ workersRunning
    /\ ~stopClosed

pingAlive == ping = "running"

\* the goroutine monitor() starts has a select left to wait in
watcherAlive == monPc # "none" /\ ~monCtxDone

InitProgram == Init \/ InitCLI

NextProgram ==
    \/ mainPc = "off" /\ Next
    \/ mainPc # "off" /\ NextCLI

SpecProgram == InitProgram /\ [][NextProgram]_vars

\* the loss counters: raw messages dropped, output events dropped,
\* notifications dropped, notification errors
LossCounters == <<droppedMessages, droppedEvents, dispatcherDropped, dispatcherErrors>>

\* C23: every loss counter is monotonically non-decreasing: no step
\* decreases or resets one, a Start() after a Stop() included, and every
\* increment is by exactly one.
C23_CountersMonotone ==
    [][\A i \in 1..Len(LossCounters) :
          \/ LossCounters'[i] = LossCounters[i]
          \/ LossCounters'[i] = LossCounters[i] + 1]_vars

\* C23's case: a monitor that dropped a raw message has been stopped and
\* started again; the counter still shows the drop
C23_Witness ==
    /\ starts = 2
    /\ isRunning
    /\ droppedMessages >= 1

====
